---------------------------- MODULE Spec2Model ----------------------------
(***************************************************************************)
(* Model of the scintilla ray-geometry kernel (src/src).                   *)
(*                                                                         *)
(* Numbers.  An f64 is modelled as an extended rational <<n, d>> in lowest *)
(* terms with d >= 0: d > 0 is the finite value n/d, <<1,0>> is +inf,      *)
(* <<-1,0>> is -inf and <<0,0>> is NaN, combined by the IEEE-754 rules for *)
(* non-finite operands.  Finite arithmetic is exact (rounding error and    *)
(* the sign of zero are not modelled); sqrt is rounded down to a multiple  *)
(* of 1/(d * SqrtScale), and is exact on squares of rationals; powf is      *)
(* computed by squaring, every product rounded down to a multiple of        *)
(* 1/PowScale, and is exact on the bases 0 and 1.                           *)
(***************************************************************************)
EXTENDS Integers, Sequences, FiniteSets, TLC

(* ------------------------------ bounds --------------------------------- *)
\* longest vector handed to Intersections::new
MaxLen == 3
\* t values handed to Intersections::new range over -MaxT..MaxT
MaxT == 2
\* queries (hit / count) made on one collection
MaxCalls == 2
\* resolution of the rounded square root
SqrtScale == 10
\* ray origins have y in 0..MaxY
MaxY == 2
\* longest chain of fluent transform calls
MaxOps == 3
\* tuple components handed to the tuple operations range over -MaxC..MaxC
MaxC == 2
\* canvases are at most MaxWidth pixels wide and MaxHeight pixels high
MaxWidth == 6
MaxHeight == 2
\* write_pixel calls on one canvas
MaxWrites == 1
\* resolution of the rounded power
PowScale == 100

(* --------------------------- f64 arithmetic ---------------------------- *)
Abs(i) == IF i < 0 THEN -i ELSE i

Sign(i) == IF i < 0 THEN -1 ELSE IF i > 0 THEN 1 ELSE 0

RECURSIVE Gcd(_, _)
Gcd(a, b) == IF b = 0 THEN a ELSE Gcd(b, a % b)

\* the f64 with value n/d (d = 0: non-finite)
R(n, d) ==
    IF d = 0 THEN <<Sign(n), 0>>
    ELSE LET g == Gcd(Abs(n), Abs(d))
             s == IF d < 0 THEN -1 ELSE 1
         IN  <<(s * n) \div g, (s * d) \div g>>

F(i) == <<i, 1>>

NaN == <<0, 0>>
Inf == <<1, 0>>
Zero == <<0, 1>>
One == <<1, 1>>

IsNaN(x) == x = NaN
IsFinite(x) == x[2] # 0

RNeg(x) == <<-x[1], x[2]>>

RAdd(x, y) ==
    IF IsNaN(x) \/ IsNaN(y) THEN NaN
    ELSE IF IsFinite(x) /\ IsFinite(y)
         THEN R(x[1] * (y[2] \div Gcd(x[2], y[2])) + y[1] * (x[2] \div Gcd(x[2], y[2])),
                (x[2] \div Gcd(x[2], y[2])) * y[2])
    ELSE IF IsFinite(x) THEN y
    ELSE IF IsFinite(y) THEN x
    ELSE IF x = y THEN x ELSE NaN

RSub(x, y) == RAdd(x, RNeg(y))

RMul(x, y) == R(x[1] * y[1], x[2] * y[2])

RDiv(x, y) ==
    IF y[1] < 0 THEN R(-(x[1] * y[2]), -(x[2] * y[1]))
    ELSE R(x[1] * y[2], x[2] * y[1])

\* x < y, false as soon as one side is NaN
RLt(x, y) ==
    /\ ~IsNaN(x)
    /\ ~IsNaN(y)
    /\ IF IsFinite(x) \/ IsFinite(y) THEN x[1] * y[2] < y[1] * x[2]
       ELSE x[1] < y[1]

\* x == y on f64: NaN is not equal to itself
REq(x, y) == ~IsNaN(x) /\ ~IsNaN(y) /\ x = y

RLe(x, y) == RLt(x, y) \/ REq(x, y)
RGe(x, y) == RLe(y, x)

\* largest r in lo..hi with r * r <= n
RECURSIVE ISqrtIn(_, _, _)
ISqrtIn(n, lo, hi) ==
    IF lo >= hi THEN lo
    ELSE LET mid == (lo + hi + 1) \div 2
         IN  IF mid * mid <= n THEN ISqrtIn(n, mid, hi) ELSE ISqrtIn(n, lo, mid - 1)

ISqrt(n) == ISqrtIn(n, 0, IF n < 46340 THEN n ELSE 46340)

\* f64::sqrt
RSqrt(x) ==
    IF IsNaN(x) \/ x[1] < 0 THEN NaN
    ELSE IF ~IsFinite(x) THEN Inf
    ELSE R(ISqrt(x[1] * x[2] * SqrtScale * SqrtScale), x[2] * SqrtScale)

\* x rounded down to a multiple of 1/PowScale (x finite, x >= 0)
RFloor(x) == R((x[1] * PowScale) \div x[2], PowScale)

\* x^k for a finite x >= 0 already rounded, k a natural number
RECURSIVE PowBySquaring(_, _)
PowBySquaring(x, k) ==
    IF k = 0 THEN One
    ELSE IF k % 2 = 1 THEN RFloor(RMul(x, PowBySquaring(x, k - 1)))
    ELSE RFloor(RMul(PowBySquaring(x, k \div 2), PowBySquaring(x, k \div 2)))

\* f64::powf(x, y) for x >= 0 or NaN and y a natural number
RPow(x, y) ==
    IF IsNaN(x) THEN NaN
    ELSE IF ~IsFinite(x) THEN (IF y = Zero THEN One ELSE Inf)
    ELSE PowBySquaring(RFloor(x), y[1])

(* ----------------------- tuple: Tuple / Vector3 / Point3 ---------------- *)
\* Tuple::new
Tuple_new(x, y, z, w) == [x |-> x, y |-> y, z |-> z, w |-> w]

\* Point3::point
point(x, y, z) == Tuple_new(x, y, z, One)

\* Vector3::vector
vector(x, y, z) == Tuple_new(x, y, z, Zero)

\* Point3::origin
Point3_origin == point(Zero, Zero, Zero)

\* impl Add for Tuple
Tuple_add(a, b) ==
    [x |-> RAdd(a.x, b.x), y |-> RAdd(a.y, b.y), z |-> RAdd(a.z, b.z), w |-> RAdd(a.w, b.w)]

\* a subtraction that keeps the w of its left operand
Tuple_sub_keeps_w(a, b) == [x |-> RSub(a.x, b.x), y |-> RSub(a.y, b.y), z |-> RSub(a.z, b.z), w |-> a.w]

\* impl Sub for Tuple
Tuple_sub(a, b) ==
    [x |-> RSub(a.x, b.x), y |-> RSub(a.y, b.y), z |-> RSub(a.z, b.z), w |-> RSub(a.w, b.w)]

\* impl Neg for Tuple
Tuple_neg(a) == [x |-> RNeg(a.x), y |-> RNeg(a.y), z |-> RNeg(a.z), w |-> RNeg(a.w)]

\* impl Mul<f64> for Tuple
Tuple_scale(a, k) ==
    [x |-> RMul(a.x, k), y |-> RMul(a.y, k), z |-> RMul(a.z, k), w |-> RMul(a.w, k)]

\* impl Mul<Tuple> for Tuple (component-wise)
Tuple_mul(a, b) ==
    [x |-> RMul(a.x, b.x), y |-> RMul(a.y, b.y), z |-> RMul(a.z, b.z), w |-> RMul(a.w, b.w)]

\* Vector3::dot
dot(a, b) ==
    RAdd(RAdd(RAdd(RMul(a.x, b.x), RMul(a.y, b.y)), RMul(a.z, b.z)), RMul(a.w, b.w))

\* Vector3::magnitude
magnitude(a) ==
    RSqrt(RAdd(RAdd(RAdd(RMul(a.x, a.x), RMul(a.y, a.y)), RMul(a.z, a.z)), RMul(a.w, a.w)))

\* Vector3::normalized
normalized(a) ==
    LET mag == magnitude(a)
    IN  [x |-> RDiv(a.x, mag), y |-> RDiv(a.y, mag), z |-> RDiv(a.z, mag), w |-> RDiv(a.w, mag)]

\* Vector3::reflect
reflect(a, normal) == Tuple_sub(a, Tuple_scale(Tuple_scale(normal, F(2)), dot(a, normal)))

(* ------------------------------ matrix --------------------------------- *)
\* A Matrix<W, H> is its rows: a function on 0..H-1 of functions on 0..W-1.
Height(m) == Cardinality(DOMAIN m)
Width(m) == Cardinality(DOMAIN m[0])

\* the cells 0..i of one row of the data array, each evaluated once and stored
RECURSIVE Matrix_row(_, _)
Matrix_row(r, i) == IF i < 0 THEN <<>> ELSE Matrix_row(r, i - 1) @@ (i :> r[i])

\* the rows 0..i of the data array
RECURSIVE Matrix_rows(_, _)
Matrix_rows(m, i) ==
    IF i < 0 THEN <<>> ELSE Matrix_rows(m, i - 1) @@ (i :> Matrix_row(m[i], Width(m) - 1))

\* the data array of a Matrix<W, H>
Matrix_data(m) == Matrix_rows(m, Height(m) - 1)

\* Matrix::from_rows, rows given as tuples of tuples of integers
Matrix_from_rows(rows) ==
    Matrix_data([row \in 0..(Len(rows) - 1) |->
                    [col \in 0..(Len(rows[1]) - 1) |-> rows[row + 1][col + 1]]])

\* Matrix::from_tuple: the tuple as a single column
Matrix_from_tuple(t) ==
    Matrix_data([row \in 0..3 |-> [col \in {0} |-> IF row = 0 THEN t.x ELSE IF row = 1 THEN t.y
                                                   ELSE IF row = 2 THEN t.z ELSE t.w]])

\* the inner loop of mul: value += self[(row, i)] * other[(i, col)] for i in 0..W
RECURSIVE MulAcc(_, _, _, _, _)
MulAcc(a, b, row, col, i) ==
    IF i < 0 THEN Zero
    ELSE RAdd(MulAcc(a, b, row, col, i - 1), RMul(a[row][i], b[i][col]))

\* impl Mul<Matrix<OW, OH>> for Matrix<W, H>
Matrix_mul(a, b) ==
    Matrix_data([row \in DOMAIN a |-> [col \in DOMAIN b[0] |-> MulAcc(a, b, row, col, Width(a) - 1)]])

\* impl Mul<Tuple> for Matrix<4, 4>
Matrix_mul_tuple(m, t) ==
    LET res == Matrix_mul(m, Matrix_from_tuple(t))
    IN  Tuple_new(res[0][0], res[1][0], res[2][0], res[3][0])

\* an identity that is left as Matrix::new() makes it, all zero
identity_zeroed(n) ==
    Matrix_data([row \in 0..(n - 1) |-> [col \in 0..(n - 1) |-> Zero]])

\* Matrix4::identity (and Matrix3, Matrix2)
identity(n) ==
    Matrix_data([row \in 0..(n - 1) |-> [col \in 0..(n - 1) |-> IF row = col THEN One ELSE Zero]])

\* Matrix<2, 2>::det
det2(m) == RSub(RMul(m[0][0], m[1][1]), RMul(m[1][0], m[0][1]))

\* the source index read at step r of the submatrix loops: the running index
\* skips over the removed row (column) when it reaches it
RECURSIVE SelfIdx(_, _)
SelfIdx(r, removed) ==
    LET start == IF r = 0 THEN 0 ELSE SelfIdx(r - 1, removed) + 1
    IN  IF start = removed THEN start + 1 ELSE start

\* a submatrix that removes row col and column row
submatrix_swapped(m, row, col) ==
    Matrix_data([r \in 0..(Height(m) - 2) |->
                    [c \in 0..(Width(m) - 2) |-> m[SelfIdx(r, col)][SelfIdx(c, row)]]])

\* Matrix<3, 3>::submatrix and Matrix<4, 4>::submatrix
submatrix(m, row, col) ==
    Matrix_data([r \in 0..(Height(m) - 2) |->
                    [c \in 0..(Width(m) - 2) |-> m[SelfIdx(r, row)][SelfIdx(c, col)]]])

\* Matrix<3, 3>::minor
minor3(m, row, col) == det2(submatrix(m, row, col))

\* Matrix<3, 3>::cofactor
cofactor3(m, row, col) == RMul(minor3(m, row, col), IF (row + col) % 2 = 0 THEN One ELSE RNeg(One))

\* the loop of Matrix<3, 3>::det: res += self[(0, c)] * self.cofactor(0, c), up to c
RECURSIVE Det3Acc(_, _)
Det3Acc(m, c) ==
    IF c < 0 THEN Zero ELSE RAdd(Det3Acc(m, c - 1), RMul(m[0][c], cofactor3(m, 0, c)))

\* Matrix<3, 3>::det
det3(m) == Det3Acc(m, 2)

\* Matrix<3, 3>::inversed
inversed3(m) ==
    LET det == det3(m)
    IN  Matrix_data([row \in 0..2 |-> [col \in 0..2 |-> RDiv(cofactor3(m, col, row), det)]])

\* Matrix<4, 4>::minor
minor4(m, row, col) == det3(submatrix(m, row, col))

\* a cofactor without its sign
cofactor4_unsigned(m, row, col) == minor4(m, row, col)

\* Matrix<4, 4>::cofactor
cofactor4(m, row, col) == RMul(minor4(m, row, col), IF (row + col) % 2 = 0 THEN One ELSE RNeg(One))

\* the loop of Matrix<4, 4>::det: res += self[(0, c)] * self.cofactor(0, c), up to c
RECURSIVE Det4Acc(_, _)
Det4Acc(m, c) ==
    IF c < 0 THEN Zero ELSE RAdd(Det4Acc(m, c - 1), RMul(m[0][c], cofactor4(m, 0, c)))

\* Matrix<4, 4>::det
det4(m) == Det4Acc(m, 3)

\* Matrix<4, 4>::is_invertible
is_invertible(m) == ~REq(det4(m), Zero)

\* an inverse that forgets the division by the determinant
inversed_adjugate(m) ==
    Matrix_data([row \in 0..3 |-> [col \in 0..3 |-> cofactor4(m, col, row)]])

\* an inverse that forgets the transposition: res[(row, col)] = cofactor(row, col) / det
inversed_of_cofactors(m) ==
    LET det == det4(m)
    IN  Matrix_data([row \in 0..3 |-> [col \in 0..3 |-> RDiv(cofactor4(m, row, col), det)]])

\* Matrix<4, 4>::inversed
inversed(m) ==
    LET det == det4(m)
    IN  Matrix_data([row \in 0..3 |-> [col \in 0..3 |-> RDiv(cofactor4(m, col, row), det)]])

\* a transposition that copies res[(row, col)] = self[(row, col)]
transposed_copy(m) == Matrix_data([row \in DOMAIN m |-> [col \in DOMAIN m[0] |-> m[row][col]]])

\* Matrix<W, H>::transposed
transposed(m) == Matrix_data([row \in DOMAIN m |-> [col \in DOMAIN m[0] |-> m[col][row]]])

(* ----------------------- matrix/transformations ------------------------ *)
\* The angles used, with the exact values of their cosine and sine.
\* "0" is 0, "quarter" is pi/2 and "atan43" is atan(4/3).
cos(a) == IF a = "0" THEN One ELSE IF a = "quarter" THEN Zero ELSE R(3, 5)
sin(a) == IF a = "0" THEN Zero ELSE IF a = "quarter" THEN One ELSE R(4, 5)

\* Matrix4::translation_matrix
translation_matrix(x, y, z) ==
    [identity(4) EXCEPT ![0][3] = x, ![1][3] = y, ![2][3] = z]

\* Matrix4::scale_matrix
scale_matrix(x, y, z) ==
    [identity(4) EXCEPT ![0][0] = x, ![1][1] = y, ![2][2] = z]

\* Matrix4::rotation_x_matrix
rotation_x_matrix(a) ==
    Matrix_from_rows(<< <<One, Zero, Zero, Zero>>,
                        <<Zero, cos(a), RNeg(sin(a)), Zero>>,
                        <<Zero, sin(a), cos(a), Zero>>,
                        <<Zero, Zero, Zero, One>> >>)

\* Matrix4::rotation_y_matrix
rotation_y_matrix(a) ==
    Matrix_from_rows(<< <<cos(a), Zero, sin(a), Zero>>,
                        <<Zero, One, Zero, Zero>>,
                        <<RNeg(sin(a)), Zero, cos(a), Zero>>,
                        <<Zero, Zero, Zero, One>> >>)

\* Matrix4::rotation_z_matrix
rotation_z_matrix(a) ==
    Matrix_from_rows(<< <<cos(a), RNeg(sin(a)), Zero, Zero>>,
                        <<sin(a), cos(a), Zero, Zero>>,
                        <<Zero, Zero, One, Zero>>,
                        <<Zero, Zero, Zero, One>> >>)

\* a translate that multiplies the new transform on the right
translate_on_the_right(m, x, y, z) == Matrix_mul(m, translation_matrix(x, y, z))

\* Matrix4::translate
translate(m, x, y, z) == Matrix_mul(translation_matrix(x, y, z), m)

\* Matrix4::scale
scale(m, x, y, z) == Matrix_mul(scale_matrix(x, y, z), m)

\* Matrix4::rotate_x
rotate_x(m, a) == Matrix_mul(rotation_x_matrix(a), m)

\* Matrix4::rotate_y
rotate_y(m, a) == Matrix_mul(rotation_y_matrix(a), m)

\* Matrix4::rotate_z
rotate_z(m, a) == Matrix_mul(rotation_z_matrix(a), m)

(* ----------------------------- scene/material -------------------------- *)
\* Color::new
Color_new(r, g, b) == [r |-> r, g |-> g, b |-> b]

\* Material::new
Material_new(color, ambient, diffuse, specular, shininess) ==
    [color |-> color, ambient |-> ambient, diffuse |-> diffuse,
     specular |-> specular, shininess |-> shininess]

\* Material::default
Material_default == Material_new(Color_new(One, One, One), R(1, 10), R(9, 10), R(9, 10), F(200))

\* Color::black
Color_black == Color_new(Zero, Zero, Zero)

\* Color::white
Color_white == Color_new(One, One, One)

\* impl Add for Color
Color_add(a, b) == [r |-> RAdd(a.r, b.r), g |-> RAdd(a.g, b.g), b |-> RAdd(a.b, b.b)]

\* impl Mul<f64> for Color
Color_scale(a, k) == [r |-> RMul(a.r, k), g |-> RMul(a.g, k), b |-> RMul(a.b, k)]

\* impl Mul<Color> for Color
Color_mul(a, b) == [r |-> RMul(a.r, b.r), g |-> RMul(a.g, b.g), b |-> RMul(a.b, b.b)]

\* PointLight::new
PointLight_new(position, intensity) == [position |-> position, intensity |-> intensity]

\* min(x, 1)
RClamp(x) == IF RLt(One, x) THEN One ELSE x

\* a lighting that clamps every channel of the sum to 1
Lighting_result_clamped(effective_color, light_vector, ambient_contrib, light_dot_normal, diffuse_contrib, specular_contrib, reflected) ==
    [effective_color |-> effective_color, light_vector |-> light_vector,
     ambient_contrib |-> ambient_contrib, light_dot_normal |-> light_dot_normal,
     diffuse_contrib |-> diffuse_contrib, specular_contrib |-> specular_contrib,
     reflected |-> reflected,
     result |-> [r |-> RClamp(RAdd(RAdd(ambient_contrib.r, diffuse_contrib.r), specular_contrib.r)),
                 g |-> RClamp(RAdd(RAdd(ambient_contrib.g, diffuse_contrib.g), specular_contrib.g)),
                 b |-> RClamp(RAdd(RAdd(ambient_contrib.b, diffuse_contrib.b), specular_contrib.b))]]

\* ambient_contrib + diffuse_contrib + specular_contrib, with the locals
\* before it; reflected is <<reflect_dot_eye>> when it was computed
Lighting_result(effective_color, light_vector, ambient_contrib, light_dot_normal, diffuse_contrib, specular_contrib, reflected) ==
    [effective_color |-> effective_color, light_vector |-> light_vector,
     ambient_contrib |-> ambient_contrib, light_dot_normal |-> light_dot_normal,
     diffuse_contrib |-> diffuse_contrib, specular_contrib |-> specular_contrib,
     reflected |-> reflected,
     result |-> Color_add(Color_add(ambient_contrib, diffuse_contrib), specular_contrib)]

\* let specular_contrib = if reflect_dot_eye < 0. { black } else { ... }
Lighting_specular(material, light, reflect_dot_eye) ==
    IF RLt(reflect_dot_eye, Zero) THEN Color_black
    ELSE Color_scale(Color_scale(light.intensity, material.specular),
                     RPow(reflect_dot_eye, material.shininess))

\* the branch of a light in front of the surface, from reflect_dot_eye on
Lighting_reflected(material, light, effective_color, light_vector, ambient_contrib, light_dot_normal, reflect_dot_eye) ==
    Lighting_result(effective_color, light_vector, ambient_contrib, light_dot_normal,
                    Color_scale(Color_scale(effective_color, material.diffuse), light_dot_normal),
                    Lighting_specular(material, light, reflect_dot_eye),
                    <<reflect_dot_eye>>)

\* a lighting without the light_dot_normal < 0. test
Lighting_contribs_unguarded(material, light, eye_vector, normal_vector, effective_color, light_vector, ambient_contrib, light_dot_normal) ==
    Lighting_reflected(material, light, effective_color, light_vector, ambient_contrib,
                       light_dot_normal,
                       dot(reflect(Tuple_neg(light_vector), normal_vector), eye_vector))

\* let (diffuse_contrib, specular_contrib) = if light_dot_normal < 0. { ... } else { ... }
Lighting_contribs(material, light, eye_vector, normal_vector, effective_color, light_vector, ambient_contrib, light_dot_normal) ==
    IF RLt(light_dot_normal, Zero)
    THEN Lighting_result(effective_color, light_vector, ambient_contrib, light_dot_normal,
                         Color_black, Color_black, <<>>)
    ELSE Lighting_reflected(material, light, effective_color, light_vector, ambient_contrib,
                            light_dot_normal,
                            dot(reflect(Tuple_neg(light_vector), normal_vector), eye_vector))

\* let ambient_contrib = ...; let light_dot_normal = ...
Lighting_lit(material, light, eye_vector, normal_vector, effective_color, light_vector) ==
    Lighting_contribs(material, light, eye_vector, normal_vector, effective_color, light_vector,
                      Color_scale(effective_color, material.ambient),
                      dot(light_vector, normal_vector))

\* Material::lighting, with its locals
lighting(material, light, position, eye_vector, normal_vector) ==
    Lighting_lit(material, light, eye_vector, normal_vector,
                 Color_mul(material.color, light.intensity),
                 normalized(Tuple_sub(light.position, position)))

(* -------------------------------- canvas ------------------------------- *)
\* Canvas::new
Canvas_new(width, height, color) ==
    [buffer |-> [i \in 1..(width * height) |-> color], width |-> width, height |-> height]

\* the index y * self.width + x is inside the buffer
InBuffer(c, x, y) == y * c.width + x < Len(c.buffer)

\* Canvas::read_pixel, for an index inside the buffer
read_pixel(c, x, y) == c.buffer[y * c.width + x + 1]

\* a write_pixel that swaps the coordinates
write_pixel_transposed(c, x, y, color) == [c EXCEPT !.buffer[x * c.width + y + 1] = color]

\* Canvas::write_pixel, past its assertion
write_pixel(c, x, y, color) == [c EXCEPT !.buffer[y * c.width + x + 1] = color]

\* f64::ceil
RCeil(x) == IF IsFinite(x) THEN F(-((-x[1]) \div x[2])) ELSE x

\* `as u8` of an f64 without a fraction: saturating, NaN is 0
AsU8(x) ==
    IF IsNaN(x) THEN 0
    ELSE IF RLt(x, Zero) THEN 0
    ELSE IF RLt(F(255), x) THEN 255
    ELSE x[1]

DecimalDigits == <<"0", "1", "2", "3", "4", "5", "6", "7", "8", "9">>

\* format!("{}", n), a sequence of characters
RECURSIVE Format(_)
Format(n) ==
    IF n < 10 THEN <<DecimalDigits[n + 1]>>
    ELSE Format(n \div 10) \o <<DecimalDigits[(n % 10) + 1]>>

\* Color::channel_to_ppm
channel_to_ppm(channel) == Format(AsU8(RCeil(RMul(channel, F(255)))))

\* Color::to_ppm
Color_to_ppm(c) == <<channel_to_ppm(c.r), channel_to_ppm(c.g), channel_to_ppm(c.b)>>

\* ppm.push_str(&ppm_channel); is_new_line = false; current_line_lenght += ...
Ppm_push_channel(acc, ppm_channel) ==
    [ppm |-> acc.ppm \o ppm_channel, is_new_line |-> FALSE,
     current_line_lenght |-> acc.current_line_lenght + Len(ppm_channel)]

\* if !is_new_line { ppm.push_str(" "); current_line_lenght += 1 }
Ppm_push_space(acc) ==
    IF ~acc.is_new_line
    THEN [acc EXCEPT !.ppm = @ \o <<" ">>, !.current_line_lenght = @ + 1]
    ELSE acc

\* ppm.push_str("\n"); current_line_lenght = 0; is_new_line = true
Ppm_new_line(acc) ==
    [ppm |-> acc.ppm \o <<"\n">>, is_new_line |-> TRUE, current_line_lenght |-> 0]

\* a test that breaks the line only once it is longer than 70 characters
Ppm_line_is_full_late(acc, ppm_channel) == acc.current_line_lenght > 70

\* current_line_lenght + ppm_channel.chars().count() + 1 > 70
Ppm_line_is_full(acc, ppm_channel) == acc.current_line_lenght + Len(ppm_channel) + 1 > 70

\* the body of `for ppm_channel in color.to_ppm()` after the line test
Ppm_channel(acc, ppm_channel) == Ppm_push_channel(Ppm_push_space(acc), ppm_channel)

\* color.to_ppm()[k] of the pixel at (x, y)
Ppm_channel_at(c, x, y, k) == Color_to_ppm(read_pixel(c, x, y))[k]

\* `for x in 0..self.width` of row y, from column x and channel k on, and
\* the line end that follows it
RECURSIVE Ppm_row(_, _, _, _, _)
Ppm_row(c, acc, y, x, k) ==
    IF x >= c.width THEN Ppm_new_line(acc).ppm
    ELSE IF k > 3 THEN Ppm_row(c, acc, y, x + 1, 1)
    ELSE IF Ppm_line_is_full(acc, Ppm_channel_at(c, x, y, k))
    THEN Ppm_row(c, Ppm_channel(Ppm_new_line(acc), Ppm_channel_at(c, x, y, k)), y, x, k + 1)
    ELSE Ppm_row(c, Ppm_channel(acc, Ppm_channel_at(c, x, y, k)), y, x, k + 1)

\* `for y in 0..self.height` from row y on: every row starts with
\* is_new_line = true and current_line_lenght = 0
RECURSIVE Ppm_rows(_, _, _)
Ppm_rows(c, ppm_, y) ==
    IF y >= c.height THEN ppm_
    ELSE Ppm_rows(c, Ppm_row(c, [ppm |-> ppm_, is_new_line |-> TRUE, current_line_lenght |-> 0],
                             y, 0, 1),
                  y + 1)

\* Canvas::to_ppm
to_ppm(c) ==
    Ppm_rows(c,
             <<"P", "3", "\n">> \o Format(c.width) \o <<" ">> \o Format(c.height)
                 \o <<"\n", "2", "5", "5", "\n">>,
             0)

(* -------------------------------- geo/ray ------------------------------ *)
\* Ray::new
Ray_new(origin, direction) == [origin |-> origin, direction |-> direction]

\* Ray::position
Ray_position(r, distance) == Tuple_add(r.origin, Tuple_scale(r.direction, distance))

\* a transform that maps the direction as if it were a point (w = 1)
Ray_transform_direction_as_point(r, matrix) ==
    [origin |-> Matrix_mul_tuple(matrix, r.origin),
     direction |-> Matrix_mul_tuple(matrix, [r.direction EXCEPT !.w = One])]

\* Ray::transform
Ray_transform(r, matrix) ==
    [origin |-> Matrix_mul_tuple(matrix, r.origin),
     direction |-> Matrix_mul_tuple(matrix, r.direction)]

(* ------------------- geo/intersections: Intersections ------------------ *)
\* Intersectable::Sphere
Intersectable_Sphere(s) == [Sphere |-> s]

\* Intersection::new
Intersection_new(t, obj) == [t |-> t, intersectable |-> obj]

IsSortedByT(s) == \A i, j \in 1..Len(s) : i < j => RLe(s[i].t, s[j].t)

Permutations_(n) == {p \in [1..n -> 1..n] : \A i, j \in 1..n : i # j => p[i] # p[j]}

\* a.t.partial_cmp(&b.t).unwrap() panics when a key is NaN; every element of a
\* vector of two or more is compared at least once
SortPanics(v) == Len(v) >= 2 /\ \E i \in 1..Len(v) : IsNaN(v[i].t)

\* a sort that also drops every entry whose t occurred earlier in the vector
SortUnstableByT_dedup(v) ==
    LET keep == {i \in 1..Len(v) : \A j \in 1..(i - 1) : v[j].t # v[i].t}
        n == Cardinality(keep)
    IN  {s \in {[i \in 1..n |-> v[f[i]]] : f \in {g \in [1..n -> keep] : \A i, j \in 1..n : i # j => g[i] # g[j]}} : IsSortedByT(s)}

\* a constructor that stores the vector as given, without sorting it
SortUnstableByT_skipped(v) == {v}

\* slice::sort_unstable_by(|a, b| a.t.partial_cmp(&b.t)): some ordering of the
\* same elements that is ascending in t; the order of equal keys is not fixed
SortUnstableByT(v) ==
    {s \in {[i \in 1..Len(v) |-> v[p[i]]] : p \in Permutations_(Len(v))} : IsSortedByT(s)}

\* Intersections::hit: data.iter().find(|i| i.t >= 0.0)
RECURSIVE Find(_, _)
Find(s, k) ==
    IF k > Len(s) THEN <<>>
    ELSE IF RGe(s[k].t, Zero) THEN <<s[k]>>
    ELSE Find(s, k + 1)

\* a hit() that looks for t > 0.0 and so skips an entry at t = 0
hit_strictly_positive(d) ==
    LET pos == {k \in 1..Len(d) : RLt(Zero, d[k].t)}
    IN  IF pos = {} THEN <<>> ELSE <<d[CHOOSE k \in pos : \A j \in pos : k <= j]>>

hit(d) == Find(d, 1)

\* Intersections::count
count(d) == Len(d)

(* ------------------------------ geo/sphere ----------------------------- *)
\* Sphere::new
Sphere_new(origin, radius) ==
    [origin |-> origin, radius |-> radius, transform |-> identity(4), material |-> Material_default]

\* Sphere::unit
Sphere_unit ==
    [origin |-> Point3_origin, radius |-> One, transform |-> identity(4), material |-> Material_default]

\* #[derive(PartialEq)] on Tuple
Tuple_eq(a, b) == REq(a.x, b.x) /\ REq(a.y, b.y) /\ REq(a.z, b.z) /\ REq(a.w, b.w)

\* #[derive(PartialEq)] on Matrix<W, H>
Matrix_eq(a, b) ==
    /\ Height(a) = Height(b)
    /\ \A row \in 0..(Height(a) - 1), col \in 0..(Width(a) - 1) : REq(a[row][col], b[row][col])

\* #[derive(PartialEq)] on Color
Color_eq(a, b) == REq(a.r, b.r) /\ REq(a.g, b.g) /\ REq(a.b, b.b)

\* #[derive(PartialEq)] on Material
Material_eq(a, b) ==
    /\ Color_eq(a.color, b.color)
    /\ REq(a.ambient, b.ambient)
    /\ REq(a.diffuse, b.diffuse)
    /\ REq(a.specular, b.specular)
    /\ REq(a.shininess, b.shininess)

\* #[derive(PartialEq)] on Sphere
Sphere_eq(a, b) ==
    /\ Tuple_eq(a.origin, b.origin)
    /\ REq(a.radius, b.radius)
    /\ Matrix_eq(a.transform, b.transform)
    /\ Material_eq(a.material, b.material)

\* |x| for an f64
RAbs(x) == IF IsFinite(x) THEN R(Abs(x[1]), x[2]) ELSE IF IsNaN(x) THEN NaN ELSE Inf

\* f64::abs_diff_eq
f64_abs_diff_eq(x, y, epsilon) == RLe(RAbs(RSub(x, y)), epsilon)

\* Tuple::abs_diff_eq
Tuple_abs_diff_eq(a, b, epsilon) ==
    /\ f64_abs_diff_eq(a.x, b.x, epsilon)
    /\ f64_abs_diff_eq(a.y, b.y, epsilon)
    /\ f64_abs_diff_eq(a.z, b.z, epsilon)
    /\ f64_abs_diff_eq(a.w, b.w, epsilon)

\* Sphere::abs_diff_eq
Sphere_abs_diff_eq(a, b, epsilon) ==
    /\ Tuple_abs_diff_eq(a.origin, b.origin, epsilon)
    /\ f64_abs_diff_eq(a.radius, b.radius, epsilon)

\* let d = b * b - 4. * a * c, with the locals before it
Quadratic_d(transformed_ray, sphere_to_ray, a, b, c) ==
    [transformed_ray |-> transformed_ray, sphere_to_ray |-> sphere_to_ray,
     a |-> a, b |-> b, c |-> c, d |-> RSub(RMul(b, b), RMul(RMul(F(4), a), c))]

\* let a, b, c of Sphere::intersections; c subtracts the literal 1.
Quadratic_abc(transformed_ray, sphere_to_ray) ==
    Quadratic_d(transformed_ray, sphere_to_ray,
                dot(transformed_ray.direction, transformed_ray.direction),
                RMul(dot(transformed_ray.direction, sphere_to_ray), F(2)),
                RSub(dot(sphere_to_ray, sphere_to_ray), One))

\* let sphere_to_ray = transformed_ray.origin - self.origin
Quadratic_sphere_to_ray(s, transformed_ray) ==
    Quadratic_abc(transformed_ray, Tuple_sub(transformed_ray.origin, s.origin))

\* an intersection that forgets to take the ray into object space
SphereQuadratic_world_ray(s, ray) == Quadratic_sphere_to_ray(s, ray)

\* the locals of Sphere::intersections up to the discriminant
SphereQuadratic(s, ray) ==
    Quadratic_sphere_to_ray(s, Ray_transform(ray, inversed(s.transform)))

\* an intersection without the d < 0. test: the roots are computed on a miss too
SphereRoots_unguarded(s, q) ==
    << Intersection_new(RDiv(RSub(RNeg(q.b), RSqrt(q.d)), RMul(F(2), q.a)),
                        Intersectable_Sphere(s)),
       Intersection_new(RDiv(RAdd(RNeg(q.b), RSqrt(q.d)), RMul(F(2), q.a)),
                        Intersectable_Sphere(s)) >>

\* an intersection that treats a tangent ray (d = 0) as a miss
SphereRoots_tangent_misses(s, q) ==
    IF RLe(q.d, Zero) THEN <<>>
    ELSE << Intersection_new(RDiv(RSub(RNeg(q.b), RSqrt(q.d)), RMul(F(2), q.a)),
                             Intersectable_Sphere(s)),
            Intersection_new(RDiv(RAdd(RNeg(q.b), RSqrt(q.d)), RMul(F(2), q.a)),
                             Intersectable_Sphere(s)) >>

\* the vector Sphere::intersections hands to Intersections::new, q being its
\* locals up to the discriminant
SphereRoots(s, q) ==
    IF RLt(q.d, Zero) THEN <<>>
    ELSE << Intersection_new(RDiv(RSub(RNeg(q.b), RSqrt(q.d)), RMul(F(2), q.a)),
                             Intersectable_Sphere(s)),
            Intersection_new(RDiv(RAdd(RNeg(q.b), RSqrt(q.d)), RMul(F(2), q.a)),
                             Intersectable_Sphere(s)) >>

\* world_normal.normalized(), with the locals before it
Normal_result(object_point, object_normal, mapped, world_normal) ==
    [object_point |-> object_point, object_normal |-> object_normal,
     mapped |-> mapped, world_normal |-> world_normal,
     result |-> normalized(world_normal)]

\* a normal_at that leaves the w of the mapped normal as it is
Normal_world_keeps_w(object_point, object_normal, mapped) ==
    Normal_result(object_point, object_normal, mapped, mapped)

\* ... * Vector3::vector(1., 1., 1.): the component-wise product clears w
Normal_world(object_point, object_normal, mapped) ==
    Normal_result(object_point, object_normal, mapped,
                  Tuple_mul(mapped, vector(One, One, One)))

\* a normal_at that maps the object normal with the transform itself
Normal_mapped_by_transform(s, object_point, object_normal) ==
    Normal_world(object_point, object_normal, Matrix_mul_tuple(s.transform, object_normal))

\* self.transform.inversed().transposed() * object_normal
Normal_mapped(s, object_point, object_normal) ==
    Normal_world(object_point, object_normal,
                 Matrix_mul_tuple(transposed(inversed(s.transform)), object_normal))

\* let object_normal = object_point - Point3::point(0., 0., 0.)
Normal_object(s, object_point) ==
    Normal_mapped(s, object_point, Tuple_sub(object_point, point(Zero, Zero, Zero)))

\* Sphere::normal_at, with its locals
normal_at(s, world_point) ==
    Normal_object(s, Matrix_mul_tuple(inversed(s.transform), world_point))

(* ------------------------------ state ---------------------------------- *)
VARIABLES
    input,      \* the vector last handed to Intersections::new
    data,       \* Intersections.data
    hitResult,  \* what the last hit() returned: <<>> is None, <<i>> is Some(&i)
    countResult,\* what the last count() returned
    calls,      \* queries (hit, count) made on the collection since it was built
    hits,       \* hit() calls among them
    sphere,     \* the Sphere under test
    ray,        \* the Ray last handed to Sphere::intersections
    quad,       \* locals of the last Sphere::intersections call
    wpoint,     \* the point last handed to Sphere::normal_at
    nrm,        \* locals and result of the last Sphere::normal_at call
    mat0,       \* the matrix a fluent chain started from
    mat,        \* the matrix the fluent chain has produced so far
    ops,        \* the fluent calls made so far, oldest first
    mA,         \* the matrix a, left operand of the matrix operations
    mB,         \* the matrix b, right operand and the matrix inverted
    mR,         \* the matrix the last matrix operation returned
    tup,        \* the tuple handed to the tuple operations
    tupResult,  \* what the last tuple operation returned
    rayIn,      \* the ray Ray::transform is called on
    rayMatrix,  \* the matrix handed to Ray::transform
    rayOut,     \* the ray Ray::transform returned
    litMaterial,\* the Material lighting is called on
    litLight,   \* the PointLight handed to lighting
    litPosition,\* the position handed to lighting
    litEye,     \* the eye vector handed to lighting
    litNormal,  \* the normal vector handed to lighting
    lit,        \* locals and result of the last Material::lighting call
    eqA,        \* the sphere a comparison is called on
    eqB,        \* the sphere it is compared with
    eqEpsilon,  \* the epsilon handed to abs_diff_eq
    eqResult,   \* what == and abs_diff_eq returned
    tupB,       \* the right operand of the last tuple addition or subtraction
    canvas,     \* the Canvas
    canvasCall, \* the arguments of the last Canvas::new or write_pixel
    writes,     \* write_pixel calls made on the canvas
    pixel,      \* what the last read_pixel returned
    ppm,        \* what the last to_ppm returned
    mMinor,     \* row, column and result of the last submatrix call
    mDet,       \* what the last det and is_invertible returned
    last        \* the operation that produced this state

vars == <<input, data, hitResult, countResult, calls, hits, sphere, ray, quad,
          wpoint, nrm, mat0, mat, ops, mA, mB, mR, tup, tupResult, rayIn, rayMatrix,
          rayOut, litMaterial, litLight, litPosition, litEye, litNormal, lit,
          eqA, eqB, eqEpsilon, eqResult, tupB, canvas, canvasCall, writes, pixel, ppm, mMinor, mDet,
          last>>

isectVars == <<input, data, hitResult, countResult, calls, hits>>
sphereVars == <<sphere, ray, quad, wpoint, nrm>>
fluentVars == <<mat0, mat, ops>>
algebraVars == <<mA, mB, mR>>
tupleVars == <<tup, tupResult>>
rayVars == <<rayIn, rayMatrix, rayOut>>
lightVars == <<litMaterial, litLight, litPosition, litEye, litNormal, lit>>
compareVars == <<eqA, eqB, eqEpsilon, eqResult>>
canvasVars == <<canvas, canvasCall, writes, pixel, ppm>>
minorVars == <<mMinor, mDet>>
extraVars == <<compareVars, tupB, canvasVars, minorVars>>
kernelVars == <<algebraVars, tupleVars, rayVars, lightVars, extraVars>>

\* nothing has been built yet
Init ==
    /\ input = <<>>
    /\ data = <<>>
    /\ hitResult = <<>>
    /\ countResult = 0
    /\ calls = 0
    /\ hits = 0
    /\ sphere = Sphere_unit
    /\ ray = Ray_new(Point3_origin, vector(Zero, Zero, One))
    /\ quad = SphereQuadratic(sphere, ray)
    /\ wpoint = point(One, Zero, Zero)
    /\ nrm = normal_at(sphere, wpoint)
    /\ mat0 = identity(4)
    /\ mat = identity(4)
    /\ ops = <<>>
    /\ mA = identity(4)
    /\ mB = identity(4)
    /\ mR = identity(4)
    /\ tup = Point3_origin
    /\ tupResult = Point3_origin
    /\ rayIn = Ray_new(Point3_origin, vector(Zero, Zero, One))
    /\ rayMatrix = identity(4)
    /\ rayOut = Ray_new(Point3_origin, vector(Zero, Zero, One))
    /\ litMaterial = Material_default
    /\ litLight = PointLight_new(point(Zero, Zero, F(-10)), Color_white)
    /\ litPosition = Point3_origin
    /\ litEye = vector(Zero, Zero, F(-1))
    /\ litNormal = vector(Zero, Zero, F(-1))
    /\ lit = lighting(litMaterial, litLight, litPosition, litEye, litNormal)
    /\ eqA = Sphere_unit
    /\ eqB = Sphere_unit
    /\ eqEpsilon = Zero
    /\ eqResult = [eq |-> TRUE, abs_diff_eq |-> TRUE]
    /\ tupB = Point3_origin
    /\ canvas = [buffer |-> <<>>, width |-> 0, height |-> 0]
    /\ canvasCall = [x |-> 0, y |-> 0, color |-> Color_black]
    /\ writes = 0
    /\ pixel = [x |-> 0, y |-> 0, color |-> Color_black]
    /\ ppm = <<>>
    /\ mMinor = [row |-> 0, col |-> 0, result |-> identity(3)]
    /\ mDet = [det |-> One, is_invertible |-> TRUE]
    /\ last = "init"

(* -------------------- Intersections built by the caller ---------------- *)
\* the objects an Intersection can refer to (two distinguishable shapes)
Objs == {Intersectable_Sphere(Sphere_unit), Intersectable_Sphere(Sphere_new(Point3_origin, F(2)))}

TVals == {F(i) : i \in (-MaxT)..MaxT}

Inputs == UNION {[1..n -> {Intersection_new(t, o) : t \in TVals, o \in Objs}] : n \in 0..MaxLen}

\* Intersections::new(v); a run follows one collection from its construction
Intersections_new ==
    /\ last = "init"
    /\ \E v \in Inputs :
         /\ input' = v
         /\ IF SortPanics(v)
            THEN data' = <<>> /\ last' = "panic"
            ELSE data' \in SortUnstableByT(v) /\ last' = "new"
    /\ hitResult' = <<>>
    /\ countResult' = 0
    /\ calls' = 0
    /\ hits' = 0
    /\ UNCHANGED <<sphere, ray, quad, wpoint, nrm, mat0, mat, ops, kernelVars>>

\* vectors whose t values repeat, on the same object and on different ones
TiedInputs == UNION {[1..n -> {Intersection_new(t, o) : t \in {F(-1), Zero, One}, o \in Objs}] : n \in 0..MaxLen}

\* Intersections::new(v) for a vector with repeated t values
Intersections_new_tied ==
    /\ last = "init"
    /\ \E v \in TiedInputs :
         /\ input' = v
         /\ data' \in SortUnstableByT(v)
    /\ last' = "new"
    /\ hitResult' = hit(data')
    /\ countResult' = count(data')
    /\ calls' = 0
    /\ hits' = 0
    /\ UNCHANGED <<sphere, ray, quad, wpoint, nrm, mat0, mat, ops, kernelVars>>

\* Intersections::new on the same intersections handed over in another
\* order, then hit() and count() on the new collection
Intersections_new_reordered ==
    /\ last = "new"
    /\ calls = 0
    /\ \E p \in Permutations_(Len(input)) :
         /\ input' = [i \in 1..Len(input) |-> input[p[i]]]
         /\ data' \in SortUnstableByT(input')
    /\ last' = "reordered"
    /\ hitResult' = hit(data')
    /\ countResult' = count(data')
    /\ UNCHANGED <<calls, hits, sphere, ray, quad, wpoint, nrm, mat0, mat, ops, kernelVars>>

NextOrder == Intersections_new_tied \/ Intersections_new_reordered

SpecOrder == Init /\ [][NextOrder]_vars

HasCollection == last \in {"new", "intersections", "hit", "count"}

\* a hit() that takes the entry it returns out of the collection
Intersections_hit_consuming ==
    /\ HasCollection
    /\ calls < MaxCalls
    /\ hitResult' = hit(data)
    /\ data' = SelectSeq(data, LAMBDA i : <<i>> # hit(data))
    /\ calls' = calls + 1
    /\ hits' = hits + 1
    /\ last' = "hit"
    /\ UNCHANGED <<input, countResult, sphere, ray, quad, wpoint, nrm, mat0, mat, ops, kernelVars>>

\* Intersections::hit(&self)
Intersections_hit ==
    /\ HasCollection
    /\ calls < MaxCalls
    /\ hitResult' = hit(data)
    /\ calls' = calls + 1
    /\ hits' = hits + 1
    /\ last' = "hit"
    /\ UNCHANGED <<input, data, countResult, sphere, ray, quad, wpoint, nrm, mat0, mat, ops, kernelVars>>

\* Intersections::count(&self)
Intersections_count ==
    /\ HasCollection
    /\ calls < MaxCalls
    /\ countResult' = count(data)
    /\ calls' = calls + 1
    /\ last' = "count"
    /\ UNCHANGED <<input, data, hitResult, hits, sphere, ray, quad, wpoint, nrm, mat0, mat, ops, kernelVars>>

NextIntersections ==
    \/ Intersections_new
    \/ Intersections_hit
    \/ Intersections_count

\* a collection built by the caller and queried
Spec == Init /\ [][NextIntersections]_vars

(* ------------------------- spheres, rays, normals ---------------------- *)
\* sphere centres and radii handed to Sphere::new
Origins == {Point3_origin, point(One, Zero, Zero)}
Radii == {One, F(2)}

\* transforms assigned to Sphere.transform, built with the fluent calls
Transforms ==
    { scale(identity(4), F(2), F(2), F(2)),
      translate(identity(4), F(5), Zero, Zero),
      translate(identity(4), Zero, One, Zero),
      scale(identity(4), One, R(1, 2), One),
      scale(identity(4), One, F(2), F(3)),
      scale(rotate_z(identity(4), "atan43"), One, R(1, 2), One),
      translate(scale(identity(4), F(2), One, One), Zero, One, F(-1)),
      translate(rotate_x(identity(4), "quarter"), One, Zero, Zero),
      scale(identity(4), Zero, One, One) }

\* rays handed to Sphere::intersections; the zero direction is included
RayOrigins == {point(Zero, F(y), F(z)) : y \in 0..MaxY, z \in {-5, 0, 5}}
RayDirections ==
    { vector(Zero, Zero, One), vector(Zero, Zero, F(2)), vector(Zero, One, Zero),
      vector(Zero, One, One), vector(Zero, Zero, Zero) }

\* points handed to Sphere::normal_at
NormalPoints ==
    { point(One, Zero, Zero), point(Zero, One, Zero), point(Zero, Zero, One),
      point(Zero, F(2), Zero), point(One, One, Zero), point(Zero, One, F(-1)),
      point(R(3, 5), R(4, 5), Zero), point(Zero, Zero, Zero) }

\* let s = Sphere::unit()
Sphere_unit_call ==
    /\ last = "init"
    /\ sphere' = Sphere_unit
    /\ last' = "sphere"
    /\ UNCHANGED <<isectVars, ray, quad, wpoint, nrm, fluentVars, kernelVars>>

\* let s = Sphere::new(origin, radius)
Sphere_new_call ==
    /\ last = "init"
    /\ \E o \in Origins, r \in Radii : sphere' = Sphere_new(o, r)
    /\ last' = "sphere"
    /\ UNCHANGED <<isectVars, ray, quad, wpoint, nrm, fluentVars, kernelVars>>

\* s.transform = m
Sphere_set_transform ==
    /\ last = "sphere"
    /\ \E m \in Transforms : sphere' = [sphere EXCEPT !.transform = m]
    /\ last' = "transform"
    /\ UNCHANGED <<isectVars, ray, quad, wpoint, nrm, fluentVars, kernelVars>>

\* s.intersections(&ray): the roots, then Intersections::new on them
Sphere_intersections ==
    /\ last \in {"sphere", "transform"}
    /\ \E o \in RayOrigins, dir \in RayDirections :
         /\ ray' = Ray_new(o, dir)
         /\ quad' = SphereQuadratic(sphere, ray')
         /\ input' = SphereRoots(sphere, quad')
         /\ IF SortPanics(input')
            THEN data' = <<>> /\ last' = "panic"
            ELSE data' \in SortUnstableByT(input') /\ last' = "intersections"
    /\ hitResult' = <<>>
    /\ countResult' = 0
    /\ calls' = 0
    /\ hits' = 0
    /\ UNCHANGED <<sphere, wpoint, nrm, fluentVars, kernelVars>>

\* s.normal_at(p)
Sphere_normal_at ==
    /\ last \in {"sphere", "transform"}
    /\ \E p \in NormalPoints :
         /\ wpoint' = p
         /\ nrm' = normal_at(sphere, p)
    /\ last' = "normal_at"
    /\ UNCHANGED <<isectVars, sphere, ray, quad, fluentVars, kernelVars>>

NextSphere ==
    \/ Sphere_unit_call
    \/ Sphere_new_call
    \/ Sphere_set_transform
    \/ Sphere_intersections
    \/ Sphere_normal_at
    \/ Intersections_hit
    \/ Intersections_count

\* a sphere, given a transform, intersected with rays and asked for normals
SpecSphere == Init /\ [][NextSphere]_vars

(* ------------------------ fluent transformations ----------------------- *)
\* the matrices a chain starts from
StartMatrices ==
    { identity(4),
      Matrix_from_rows(<< <<One, F(2), Zero, Zero>>,
                          <<Zero, One, Zero, F(-1)>>,
                          <<F(3), Zero, One, Zero>>,
                          <<Zero, Zero, F(2), One>> >>) }

ChainAngles == {"quarter", "atan43"}
ChainTranslations == {<<F(10), F(5), F(7)>>}
ChainScales == {<<F(5), F(5), F(5)>>, <<F(2), One, R(1, 2)>>}

\* let m = ...: the receiver of the first fluent call
Matrix_start ==
    /\ last = "init"
    /\ mat0' \in StartMatrices
    /\ mat' = mat0'
    /\ ops' = <<>>
    /\ last' = "matrix"
    /\ UNCHANGED <<isectVars, sphereVars, kernelVars>>

InChain == last \in {"matrix", "fluent"} /\ Len(ops) < MaxOps

\* m.translate(x, y, z)
Matrix_translate ==
    /\ InChain
    /\ \E a \in ChainTranslations :
         /\ mat' = translate(mat, a[1], a[2], a[3])
         /\ ops' = Append(ops, <<"translate", a>>)
    /\ last' = "fluent"
    /\ UNCHANGED <<isectVars, sphereVars, mat0, kernelVars>>

\* m.scale(x, y, z)
Matrix_scale ==
    /\ InChain
    /\ \E a \in ChainScales :
         /\ mat' = scale(mat, a[1], a[2], a[3])
         /\ ops' = Append(ops, <<"scale", a>>)
    /\ last' = "fluent"
    /\ UNCHANGED <<isectVars, sphereVars, mat0, kernelVars>>

\* m.rotate_x(a)
Matrix_rotate_x ==
    /\ InChain
    /\ \E a \in ChainAngles :
         /\ mat' = rotate_x(mat, a)
         /\ ops' = Append(ops, <<"rotate_x", a>>)
    /\ last' = "fluent"
    /\ UNCHANGED <<isectVars, sphereVars, mat0, kernelVars>>

\* m.rotate_y(a)
Matrix_rotate_y ==
    /\ InChain
    /\ \E a \in ChainAngles :
         /\ mat' = rotate_y(mat, a)
         /\ ops' = Append(ops, <<"rotate_y", a>>)
    /\ last' = "fluent"
    /\ UNCHANGED <<isectVars, sphereVars, mat0, kernelVars>>

\* m.rotate_z(a)
Matrix_rotate_z ==
    /\ InChain
    /\ \E a \in ChainAngles :
         /\ mat' = rotate_z(mat, a)
         /\ ops' = Append(ops, <<"rotate_z", a>>)
    /\ last' = "fluent"
    /\ UNCHANGED <<isectVars, sphereVars, mat0, kernelVars>>

NextFluent ==
    \/ Matrix_start
    \/ Matrix_translate
    \/ Matrix_scale
    \/ Matrix_rotate_x
    \/ Matrix_rotate_y
    \/ Matrix_rotate_z

\* a chain of fluent transform calls on one matrix
SpecFluent == Init /\ [][NextFluent]_vars

(* ---------------------------- matrix algebra --------------------------- *)
\* matrix1 and matrix2 of it_multiply_a_product_by_its_inverse
matrix1 ==
    Matrix_from_rows(<< <<F(3), F(-9), F(7), F(3)>>,
                        <<F(3), F(-8), F(2), F(-9)>>,
                        <<F(-4), F(4), F(4), One>>,
                        <<F(-6), F(5), F(-1), One>> >>)

matrix2 ==
    Matrix_from_rows(<< <<F(8), F(2), F(2), F(2)>>,
                        <<F(3), F(-1), F(7), Zero>>,
                        <<F(7), Zero, F(5), F(4)>>,
                        <<F(6), F(-2), Zero, F(5)>> >>)

\* matrix of it_can_be_multiplied_by_the_identity_matrix
matrix ==
    Matrix_from_rows(<< <<Zero, One, F(2), F(4)>>,
                        <<One, F(2), F(4), F(8)>>,
                        <<F(2), F(4), F(8), F(16)>>,
                        <<F(4), F(8), F(16), F(32)>> >>)

\* the 4 x 4 matrices handed to the matrix operations; three of them have
\* determinant 0
Matrices4 ==
    { identity(4),
      translation_matrix(One, F(2), F(3)),
      scale_matrix(F(2), One, R(1, 2)),
      rotation_x_matrix("quarter"),
      rotation_z_matrix("atan43"),
      Matrix_from_rows(<< <<One, F(2), Zero, Zero>>,
                          <<Zero, One, Zero, F(-1)>>,
                          <<F(3), Zero, One, Zero>>,
                          <<Zero, Zero, F(2), One>> >>),
      Matrix_from_rows(<< <<F(-4), F(2), F(-2), F(-3)>>,
                          <<F(9), F(6), F(2), F(6)>>,
                          <<Zero, F(-5), One, F(-5)>>,
                          <<Zero, Zero, Zero, Zero>> >>),
      Matrix_from_rows(<< <<F(-5), F(2), F(6), F(-8)>>,
                          <<One, F(-5), One, F(8)>>,
                          <<F(7), F(7), F(-6), F(-7)>>,
                          <<One, F(-3), F(7), F(4)>> >>),
      matrix1,
      matrix2,
      matrix,
      Matrix_from_rows(<< <<Zero, F(9), F(3), Zero>>,
                          <<F(9), F(8), Zero, F(8)>>,
                          <<One, F(8), F(5), F(3)>>,
                          <<Zero, Zero, F(5), F(8)>> >>),
      scale_matrix(Zero, One, One) }

\* the 3 x 3 matrices; the last has determinant 0
Matrices3 ==
    { identity(3),
      Matrix_from_rows(<< <<One, F(2), F(6)>>, <<F(-5), F(8), F(-4)>>, <<F(2), F(6), F(4)>> >>),
      Matrix_from_rows(<< <<F(2), Zero, Zero>>, <<Zero, One, One>>, <<Zero, Zero, One>> >>),
      Matrix_from_rows(<< <<One, F(2), F(3)>>, <<F(2), F(4), F(6)>>, <<Zero, One, One>> >>) }

\* the 2 x 2 matrices
Matrices2 ==
    { identity(2), Matrix_from_rows(<< <<One, F(5)>>, <<F(-3), F(2)>> >>) }

\* m.det(), m.inversed() on a Matrix<3, 3> or a Matrix<4, 4>: the impl is
\* chosen by the type
Matrix_det(x) == IF Height(x) = 3 THEN det3(x) ELSE det4(x)
Matrix_inversed(x) == IF Height(x) = 3 THEN inversed3(x) ELSE inversed(x)

\* let a = ..., b = ...: two matrices of the same dimension
Matrix_operands ==
    /\ last = "init"
    /\ \E ms \in {Matrices4, Matrices3, Matrices2} :
         /\ mA' \in ms
         /\ mB' \in ms
    /\ mR' = mA'
    /\ last' = "operands"
    /\ UNCHANGED <<isectVars, sphereVars, fluentVars, tupleVars, rayVars, lightVars, extraVars>>

\* one matrix operation op, applied after the operation before
Matrix_step(before, op, result) ==
    /\ last = before
    /\ mR' = result
    /\ last' = op
    /\ UNCHANGED <<isectVars, sphereVars, fluentVars, mA, mB, tupleVars, rayVars, lightVars, extraVars>>

\* a * b
Matrix_product == Matrix_step("operands", "a * b", Matrix_mul(mA, mB))

\* Matrix::identity() * a
Matrix_identity_left == Matrix_step("operands", "identity * a", Matrix_mul(identity(Height(mA)), mA))

\* a * Matrix::identity()
Matrix_identity_right == Matrix_step("operands", "a * identity", Matrix_mul(mA, identity(Height(mA))))

\* b.inversed()
Matrix_inverse ==
    /\ Height(mB) > 2
    /\ Matrix_step("operands", "b.inversed()", Matrix_inversed(mB))

\* b.inversed().inversed()
Matrix_inverse_twice == Matrix_step("b.inversed()", "b.inversed().inversed()", Matrix_inversed(mR))

\* b * b.inversed()
Matrix_by_inverse == Matrix_step("b.inversed()", "b * b.inversed()", Matrix_mul(mB, mR))

\* a.inversed() * b.inversed(): the inverses multiplied in the order of the product
Matrix_inverses_product_in_order ==
    Matrix_step("b.inversed()", "b.inversed() * a.inversed()", Matrix_mul(Matrix_inversed(mA), mR))

\* b.inversed() * a.inversed()
Matrix_inverses_product ==
    Matrix_step("b.inversed()", "b.inversed() * a.inversed()", Matrix_mul(mR, Matrix_inversed(mA)))

\* (a * b).inversed()
Matrix_product_inverse ==
    /\ Height(mB) > 2
    /\ Matrix_step("a * b", "(a * b).inversed()", Matrix_inversed(mR))

\* a * b * b.inversed()
Matrix_product_by_inverse ==
    /\ Height(mB) > 2
    /\ Matrix_step("a * b", "a * b * b.inversed()", Matrix_mul(mR, Matrix_inversed(mB)))

\* a.det() on a Matrix<2, 2>, a Matrix<3, 3> or a Matrix<4, 4>
Matrix_det_of(x) == IF Height(x) = 2 THEN det2(x) ELSE Matrix_det(x)

\* a.det() and, on a Matrix<4, 4>, a.is_invertible(): <<>> where the type
\* has no such method
Matrix_det_call ==
    /\ last = "operands"
    /\ mDet' = [det |-> Matrix_det_of(mA),
                is_invertible |-> IF Height(mA) = 4 THEN <<is_invertible(mA)>> ELSE <<>>]
    /\ last' = "a.det()"
    /\ UNCHANGED <<isectVars, sphereVars, fluentVars, algebraVars, tupleVars, rayVars, lightVars,
                   compareVars, tupB, canvasVars, mMinor>>

\* a.submatrix(row, col) on a Matrix<3, 3> or a Matrix<4, 4>
Matrix_submatrix_call ==
    /\ last = "operands"
    /\ Height(mA) > 2
    /\ \E row, col \in 0..(Height(mA) - 1) :
          mMinor' = [row |-> row, col |-> col, result |-> submatrix(mA, row, col)]
    /\ last' = "a.submatrix()"
    /\ UNCHANGED <<isectVars, sphereVars, fluentVars, algebraVars, tupleVars, rayVars, lightVars,
                   compareVars, tupB, canvasVars, mDet>>

\* a.transposed()
Matrix_transpose == Matrix_step("operands", "a.transposed()", transposed(mA))

\* a.transposed().transposed()
Matrix_transpose_twice ==
    Matrix_step("a.transposed()", "a.transposed().transposed()", transposed(mR))

NextMatrix ==
    \/ Matrix_det_call
    \/ Matrix_submatrix_call
    \/ Matrix_transpose
    \/ Matrix_transpose_twice
    \/ Matrix_operands
    \/ Matrix_product
    \/ Matrix_identity_left
    \/ Matrix_identity_right
    \/ Matrix_inverse
    \/ Matrix_inverse_twice
    \/ Matrix_by_inverse
    \/ Matrix_inverses_product
    \/ Matrix_product_inverse
    \/ Matrix_product_by_inverse

\* two matrices, multiplied and inverted
SpecMatrix == Init /\ [][NextMatrix]_vars

(* ======================= properties: Intersections ===================== *)
NonNegative(v) == {i \in 1..Len(v) : RGe(v[i].t, Zero)}

\* C1: hit() returns an entry of the collection whose t is the smallest
\* non-negative t among all entries handed to Intersections::new, and returns
\* None exactly when every entry has a negative t (the empty vector included).
C1_HitIsSmallestNonNegative ==
    last = "hit" =>
        /\ (hitResult = <<>>) <=> (NonNegative(input) = {})
        /\ hitResult # <<>> =>
             /\ \E i \in NonNegative(input) : input[i] = hitResult[1]
             /\ \A i \in NonNegative(input) : RLe(hitResult[1].t, input[i].t)

\* hit() was asked of {2, -1, 1} and answered with the entry at t = 1
C1_Witness ==
    /\ last = "hit"
    /\ Len(input) = 3
    /\ input[1].t = F(2) /\ input[2].t = F(-1) /\ input[3].t = F(1)
    /\ hitResult # <<>>
    /\ hitResult[1].t = F(1)

\* C2: after Intersections::new on any input order the stored sequence is
\* ascending in t (entry[i].t <= entry[j].t for i < j), and it stays so
\* through every later hit() and count().
C2_SortedForLife ==
    HasCollection =>
        /\ Len(data) = Len(input)
        /\ \A i, j \in 1..Len(data) : i < j => RLe(data[i].t, data[j].t)

\* a collection built from a descending vector, after two queries
C2_Witness ==
    /\ calls >= 2
    /\ Len(input) = 3
    /\ RLt(input[2].t, input[1].t) /\ RLt(input[3].t, input[2].t)
    /\ RLt(data[1].t, data[3].t)

\* C3: hit() is a pure query: a call leaves the stored sequence, and with it
\* count(), unchanged, and returns what the previous hit() on the same
\* collection returned.
C3_HitIsPure ==
    [][last' = "hit" =>
          /\ data' = data
          /\ count(data') = count(data)
          /\ input' = input
          /\ (hits > 0 => hitResult' = hitResult)]_vars

\* hit() was called twice on a three-entry collection and found an entry
C3_Witness ==
    /\ hits >= 2
    /\ last = "hit"
    /\ Len(data) = 3
    /\ hitResult # <<>>

(* ========================== properties: Sphere ========================= *)
IsZeroVector(v) == v.x = Zero /\ v.y = Zero /\ v.z = Zero /\ v.w = Zero

Ts(v) == [i \in 1..Len(v) |-> v[i].t]

UnitAxes == {vector(One, Zero, Zero), vector(Zero, One, Zero), vector(Zero, Zero, One)}

\* C5: the constant coefficient is c = sphere_to_ray . sphere_to_ray - radius^2:
\* for a sphere of radius r and identity transform, a ray along an axis that
\* passes through the centre at distance k intersects at t = k - r and k + r.
C5_RootsAtRadius ==
    (/\ last = "intersections"
     /\ sphere.transform = identity(4)
     /\ ray.direction \in UnitAxes
     /\ LET k == dot(Tuple_sub(sphere.origin, ray.origin), ray.direction)
        IN  Ray_position(ray, k) = sphere.origin) =>
        LET k == dot(Tuple_sub(sphere.origin, ray.origin), ray.direction)
        IN  /\ quad.c = RSub(dot(quad.sphere_to_ray, quad.sphere_to_ray),
                             RMul(sphere.radius, sphere.radius))
            /\ Ts(data) = <<RSub(k, sphere.radius), RAdd(k, sphere.radius)>>

\* C6: for a sphere with invertible transform T, Sphere::intersections(ray)
\* reports the t values of the same sphere without transform intersected with
\* the ray whose origin and direction are mapped by inverse(T); a unit sphere
\* scaled by 2 and the ray from (0,0,-5) along +z give t = 3 and t = 7, and
\* translated by (5,0,0) it gives no intersection.
C6_IntersectsInObjectSpace ==
    (last \in {"intersections", "panic"} /\ is_invertible(sphere.transform)) =>
        LET untransformed == [sphere EXCEPT !.transform = identity(4)]
            mapped == Ray_new(Matrix_mul_tuple(inversed(sphere.transform), ray.origin),
                              Matrix_mul_tuple(inversed(sphere.transform), ray.direction))
            v == SphereRoots(untransformed, SphereQuadratic(untransformed, mapped))
            r1 == Ray_new(point(Zero, Zero, F(-5)), vector(Zero, Zero, One))
        IN  /\ (last = "panic") <=> SortPanics(v)
            /\ last = "intersections" => Ts(data) \in {Ts(x) : x \in SortUnstableByT(v)}
            /\ (ray = r1 /\ sphere = [Sphere_unit EXCEPT !.transform = scale_matrix(F(2), F(2), F(2))])
                  => Ts(data) = <<F(3), F(7)>>
            /\ (ray = r1 /\ sphere = [Sphere_unit EXCEPT !.transform = translation_matrix(F(5), Zero, Zero)])
                  => count(data) = 0

\* a sphere scaled by 2 is hit twice by a ray whose origin and direction both
\* change on the way to object space
C6_Witness ==
    /\ last = "intersections"
    /\ sphere.transform = scale_matrix(F(2), F(2), F(2))
    /\ ray = Ray_new(point(Zero, One, F(-5)), vector(Zero, Zero, One))
    /\ quad.transformed_ray.origin = point(Zero, R(1, 2), R(-5, 2))
    /\ quad.transformed_ray.direction = vector(Zero, Zero, R(1, 2))
    /\ count(data) = 2

\* C7: Sphere::normal_at computes the object-space normal as
\* object_point - sphere.origin, with the sphere's own origin field, for
\* every sphere, one constructed with a non-zero origin included.
C7_NormalFromSphereOrigin ==
    last = "normal_at" => nrm.object_normal = Tuple_sub(nrm.object_point, sphere.origin)

IsScale(m) == m = scale_matrix(m[0][0], m[1][1], m[2][2])

\* vectors to test tangency with
Tangents ==
    { vector(One, Zero, Zero), vector(Zero, One, Zero), vector(Zero, Zero, One),
      vector(One, F(-1), Zero), vector(Zero, One, One), vector(F(4), F(-3), Zero),
      vector(Zero, F(2), F(3)), vector(Zero, F(3), F(2)) }

\* C9: normal_at maps the object-space normal with transpose(inverse(T)), not
\* with T: before normalization the x, y, z of the world normal are those of
\* transpose(inverse(T)) * object_normal; under a scale (sx, sy, sz) the object
\* normal (nx, ny, nz) becomes (nx/sx, ny/sy, nz/sz); and the world normal
\* stays perpendicular to the image under T of every tangent of the sphere.
C9_NormalByInverseTranspose ==
    (last = "normal_at" /\ is_invertible(sphere.transform)) =>
        LET T == sphere.transform
            n == nrm.object_normal
            m == Matrix_mul_tuple(transposed(inversed(T)), n)
        IN  /\ nrm.world_normal.x = m.x
            /\ nrm.world_normal.y = m.y
            /\ nrm.world_normal.z = m.z
            /\ IsScale(T) =>
                 nrm.world_normal =
                     vector(RDiv(n.x, T[0][0]), RDiv(n.y, T[1][1]), RDiv(n.z, T[2][2]))
            /\ \A v \in Tangents :
                 dot(v, n) = Zero => dot(Matrix_mul_tuple(T, v), nrm.world_normal) = Zero

\* under the scale (1, 2, 3) the object normal (0, 1/2, -1/3) becomes
\* (0, 1/4, -1/9), and a tangent has been tested against it
C9_Witness ==
    /\ last = "normal_at"
    /\ sphere.transform = scale_matrix(One, F(2), F(3))
    /\ wpoint = point(Zero, One, F(-1))
    /\ nrm.object_normal = vector(Zero, R(1, 2), R(-1, 3))
    /\ nrm.world_normal = vector(Zero, R(1, 4), R(-1, 9))
    /\ dot(vector(Zero, F(2), F(3)), nrm.object_normal) = Zero

(* ==================== properties: fluent transformations =============== *)
\* the matrix a fluent call multiplies onto its receiver
OpMatrix(op) ==
    CASE op[1] = "translate" -> translation_matrix(op[2][1], op[2][2], op[2][3])
      [] op[1] = "scale" -> scale_matrix(op[2][1], op[2][2], op[2][3])
      [] op[1] = "rotate_x" -> rotation_x_matrix(op[2])
      [] op[1] = "rotate_y" -> rotation_y_matrix(op[2])
      [] op[1] = "rotate_z" -> rotation_z_matrix(op[2])

\* op_n * ... * op_1 * m, multiplied from the left as the claim writes it
RECURSIVE LeftProduct(_, _)
LeftProduct(s, k) ==
    IF k = 1 THEN OpMatrix(s[Len(s)])
    ELSE Matrix_mul(LeftProduct(s, k - 1), OpMatrix(s[Len(s) - k + 1]))

\* each of the matrices of the chain applied to p in turn, the oldest first
RECURSIVE ApplyInTurn(_, _)
ApplyInTurn(s, p) ==
    IF s = <<>> THEN p
    ELSE ApplyInTurn(Tail(s), Matrix_mul_tuple(OpMatrix(Head(s)), p))

ChainPoints == {point(F(2), F(-1), F(3)), vector(Zero, One, F(2))}

\* C10: each fluent call left-multiplies its transform onto the receiver:
\* M.rotate_x(a).scale(..).translate(..) is translation * scale * rotation_x * M
\* (and so for every chain of fluent calls), so applied to a point the first
\* call of the chain acts first and the last call acts last.
C10_FluentLeftMultiplies ==
    ops # <<>> =>
        /\ mat = Matrix_mul(LeftProduct(ops, Len(ops)), mat0)
        /\ \A p \in ChainPoints :
             Matrix_mul_tuple(mat, p) = ApplyInTurn(ops, Matrix_mul_tuple(mat0, p))

\* M.rotate_x(pi/2).scale(5,5,5).translate(10,5,7) on an M that is not the
\* identity
C10_Witness ==
    /\ ops = << <<"rotate_x", "quarter">>, <<"scale", <<F(5), F(5), F(5)>> >>,
                <<"translate", <<F(10), F(5), F(7)>> >> >>
    /\ mat0 # identity(4)
    /\ mat = Matrix_mul(Matrix_mul(Matrix_mul(translation_matrix(F(10), F(5), F(7)),
                                              scale_matrix(F(5), F(5), F(5))),
                                   rotation_x_matrix("quarter")),
                        mat0)

(* ------------------------------- tuples -------------------------------- *)
\* the tuples handed to the tuple operations: points (w = 1) and vectors
\* (w = 0), the zero vector included
Tuples ==
    {Tuple_new(F(x), F(y), F(z), F(w)) : x, y, z \in (-MaxC)..MaxC, w \in {0, 1}}
        \cup {point(F(3), F(2), One), vector(F(3), F(2), One), vector(F(3), F(-2), F(5))}

\* the right operands of the addition and subtraction tests
RightOperands ==
    { point(F(5), F(6), F(7)), vector(F(5), F(6), F(7)), vector(F(-2), F(3), One),
      vector(One, F(-2), F(3)) }

\* let t = Tuple::new(x, y, z, w)
Tuple_new_call ==
    /\ last = "init"
    /\ tup' \in Tuples
    /\ tupResult' = tup'
    /\ last' = "tuple"
    /\ UNCHANGED <<isectVars, sphereVars, fluentVars, algebraVars, rayVars, lightVars, extraVars>>

\* t.magnitude()
Tuple_magnitude ==
    /\ last = "tuple"
    /\ tupResult' = magnitude(tup)
    /\ last' = "magnitude"
    /\ UNCHANGED <<isectVars, sphereVars, fluentVars, algebraVars, tup, rayVars, lightVars, extraVars>>

\* t.normalized()
Tuple_normalized ==
    /\ last = "tuple"
    /\ tupResult' = normalized(tup)
    /\ last' = "normalized"
    /\ UNCHANGED <<isectVars, sphereVars, fluentVars, algebraVars, tup, rayVars, lightVars, extraVars>>

\* t + other
Tuple_add_call ==
    /\ last = "tuple"
    /\ tupB' \in RightOperands
    /\ tupResult' = Tuple_add(tup, tupB')
    /\ last' = "add"
    /\ UNCHANGED <<isectVars, sphereVars, fluentVars, algebraVars, tup, rayVars, lightVars,
                   compareVars, canvasVars, minorVars>>

\* t - other
Tuple_sub_call ==
    /\ last = "tuple"
    /\ tupB' \in RightOperands
    /\ tupResult' = Tuple_sub(tup, tupB')
    /\ last' = "sub"
    /\ UNCHANGED <<isectVars, sphereVars, fluentVars, algebraVars, tup, rayVars, lightVars,
                   compareVars, canvasVars, minorVars>>

NextTuple ==
    \/ Tuple_add_call
    \/ Tuple_sub_call
    \/ Tuple_new_call
    \/ Tuple_magnitude
    \/ Tuple_normalized

\* a tuple, measured and normalized
SpecTuple == Init /\ [][NextTuple]_vars

(* --------------------------- ray transforms ---------------------------- *)
\* the rays Ray::transform is called on
TransformedRayOrigins == {point(One, F(2), F(3)), point(Zero, Zero, F(-5)), point(F(-3), F(4), F(5))}
TransformedRayDirections ==
    { vector(Zero, One, Zero), vector(Zero, Zero, One), vector(F(-3), F(4), F(5)),
      vector(One, One, Zero), vector(R(1, 2), Zero, F(-2)) }

\* the matrices handed to Ray::transform: translations, scales, a rotation
\* and compositions of them
RayMatrices ==
    { identity(4),
      translation_matrix(F(3), F(4), F(5)),
      translation_matrix(F(5), F(-3), F(2)),
      translation_matrix(Zero, Zero, R(-1, 2)),
      scale_matrix(F(2), F(3), F(4)),
      rotation_y_matrix("quarter"),
      translate(scale(identity(4), F(2), F(2), F(2)), One, Zero, Zero),
      translate(rotate_z(identity(4), "atan43"), Zero, F(-1), Zero) }

\* let r1 = Ray::new(origin, direction)
Ray_new_call ==
    /\ last = "init"
    /\ \E o \in TransformedRayOrigins, dir \in TransformedRayDirections : rayIn' = Ray_new(o, dir)
    /\ rayOut' = rayIn'
    /\ last' = "ray"
    /\ UNCHANGED <<isectVars, sphereVars, fluentVars, algebraVars, tupleVars, rayMatrix, lightVars, extraVars>>

\* let r2 = r1.transform(&m)
Ray_transform_call ==
    /\ last = "ray"
    /\ rayMatrix' \in RayMatrices
    /\ rayOut' = Ray_transform(rayIn, rayMatrix')
    /\ last' = "transform"
    /\ UNCHANGED <<isectVars, sphereVars, fluentVars, algebraVars, tupleVars, rayIn, lightVars, extraVars>>

NextRay ==
    \/ Ray_new_call
    \/ Ray_transform_call

\* a ray and its image under a matrix
SpecRay == Init /\ [][NextRay]_vars

(* ------------------------- material lighting --------------------------- *)

\* the material of the lighting tests, a coloured one of low shininess and
\* one of shininess 0
Materials ==
    { Material_default,
      Material_new(Color_new(One, R(1, 2), Zero), R(1, 5), R(7, 10), R(3, 10), F(2)),
      Material_new(Color_new(One, One, One), R(1, 10), R(9, 10), R(9, 10), Zero) }

\* the light positions of the lighting tests, and two at distance 5
LightPositions ==
    { point(Zero, Zero, F(-10)), point(Zero, Zero, F(10)), point(Zero, F(10), F(-10)),
      point(Zero, F(3), F(-4)), point(Zero, F(-3), F(4)) }

LightIntensities == { Color_white, Color_new(R(1, 2), One, R(1, 4)) }

LitPositions == { Point3_origin, point(Zero, Zero, One) }

\* unit eye vectors in front of and behind the surface
EyeVectors ==
    { vector(Zero, Zero, F(-1)), vector(Zero, Zero, One),
      vector(Zero, R(3, 5), R(-4, 5)), vector(Zero, R(-3, 5), R(-4, 5)),
      vector(R(3, 5), Zero, R(4, 5)), vector(Zero, One, Zero) }

NormalVectors == { vector(Zero, Zero, F(-1)), vector(Zero, One, Zero) }

\* let material = ...; let position = ...; let light = PointLight::new(...)
Lighting_scene ==
    /\ last = "init"
    /\ litMaterial' \in Materials
    /\ \E p \in LightPositions, i \in LightIntensities : litLight' = PointLight_new(p, i)
    /\ litPosition' \in LitPositions
    /\ last' = "scene"
    /\ UNCHANGED <<isectVars, sphereVars, fluentVars, algebraVars, tupleVars, rayVars,
                   litEye, litNormal, lit, extraVars>>

\* let result = material.lighting(light, position, eye_vector, normal_vector)
Lighting_call ==
    /\ last = "scene"
    /\ litEye' \in EyeVectors
    /\ litNormal' \in NormalVectors
    /\ lit' = lighting(litMaterial, litLight, litPosition, litEye', litNormal')
    /\ last' = "lighting"
    /\ UNCHANGED <<isectVars, sphereVars, fluentVars, algebraVars, tupleVars, rayVars,
                   litMaterial, litLight, litPosition, extraVars>>

NextLight ==
    \/ Lighting_scene
    \/ Lighting_call

\* one call of Material::lighting
SpecLight == Init /\ [][NextLight]_vars

(* ------------------------------- canvas -------------------------------- *)

\* the colours the canvas tests write
CanvasColors == { Color_new(R(3, 2), Zero, Zero), Color_new(R(-1, 2), Zero, One) }

\* canvas widths: none, narrow rows and rows longer than a line of the output
Widths == {0, 1, 2, 3, MaxWidth}

\* the colours the canvas tests fill a canvas with
Backgrounds == { Color_black, Color_new(One, R(4, 5), R(3, 5)) }

\* let mut canvas = Canvas::new(width, height, color)
Canvas_new_call ==
    /\ last = "init"
    /\ \E w \in Widths, h \in 0..MaxHeight, c \in Backgrounds :
          /\ canvas' = Canvas_new(w, h, c)
          /\ canvasCall' = [x |-> w, y |-> h, color |-> c]
    /\ writes' = 0
    /\ last' = "canvas"
    /\ UNCHANGED <<isectVars, sphereVars, fluentVars, algebraVars, tupleVars, rayVars, lightVars,
                   compareVars, tupB, pixel, ppm, minorVars>>

OnCanvas == last \in {"canvas", "write"}

\* canvas.write_pixel(x, y, color): the assertion stops an out-of-range call
Canvas_write_pixel ==
    /\ OnCanvas
    /\ writes < MaxWrites
    /\ \E x \in 0..canvas.width, y \in 0..canvas.height, c \in CanvasColors :
          /\ canvasCall' = [x |-> x, y |-> y, color |-> c]
          /\ IF x < canvas.width /\ y < canvas.height
             THEN canvas' = write_pixel(canvas, x, y, c) /\ last' = "write"
             ELSE canvas' = canvas /\ last' = "panic"
    /\ writes' = writes + 1
    /\ UNCHANGED <<isectVars, sphereVars, fluentVars, algebraVars, tupleVars, rayVars, lightVars,
                   compareVars, tupB, pixel, ppm, minorVars>>

\* canvas.read_pixel(x, y), at the origin, at the coordinates of the last
\* write and past the last column and row: indexing past the buffer panics
Canvas_read_pixel ==
    /\ OnCanvas
    /\ \E x \in {0, canvasCall.x, canvas.width}, y \in {0, canvasCall.y, canvas.height} :
          IF InBuffer(canvas, x, y)
          THEN pixel' = [x |-> x, y |-> y, color |-> read_pixel(canvas, x, y)] /\ last' = "read"
          ELSE pixel' = pixel /\ last' = "panic"
    /\ UNCHANGED <<isectVars, sphereVars, fluentVars, algebraVars, tupleVars, rayVars, lightVars,
                   compareVars, tupB, canvas, canvasCall, writes, ppm, minorVars>>

\* let ppm = canvas.to_ppm()
Canvas_to_ppm ==
    /\ OnCanvas
    /\ ppm' = to_ppm(canvas)
    /\ last' = "to_ppm"
    /\ UNCHANGED <<isectVars, sphereVars, fluentVars, algebraVars, tupleVars, rayVars, lightVars,
                   compareVars, tupB, canvas, canvasCall, writes, pixel, minorVars>>

NextCanvas ==
    \/ Canvas_to_ppm
    \/ Canvas_new_call
    \/ Canvas_write_pixel
    \/ Canvas_read_pixel

\* a canvas, the pixels written to it and read from it
SpecCanvas == Init /\ [][NextCanvas]_vars

(* ------------------------- sphere comparison --------------------------- *)

\* spheres that differ from the unit sphere in one field each
ComparedSpheres ==
    { Sphere_unit,
      Sphere_new(Point3_origin, F(2)),
      Sphere_new(point(One, Zero, Zero), One),
      Sphere_new(point(R(1, 200), Zero, Zero), One),
      Sphere_new(Point3_origin, NaN),
      [Sphere_unit EXCEPT !.transform = translation_matrix(F(2), F(3), F(4))],
      [Sphere_unit EXCEPT !.material = Material_new(Color_new(One, Zero, Zero), R(1, 10), R(9, 10), R(9, 10), F(200))] }

Epsilons == { Zero, R(1, 100) }

\* let a = ...; let b = ...
Sphere_pair ==
    /\ last = "init"
    /\ eqA' \in ComparedSpheres
    /\ eqB' \in ComparedSpheres
    /\ last' = "spheres"
    /\ UNCHANGED <<isectVars, sphereVars, fluentVars, algebraVars, tupleVars, rayVars, lightVars,
                   eqEpsilon, eqResult, tupB, canvasVars, minorVars>>

\* a == b and a.abs_diff_eq(&b, epsilon)
Sphere_compare ==
    /\ last = "spheres"
    /\ eqEpsilon' \in Epsilons
    /\ eqResult' = [eq |-> Sphere_eq(eqA, eqB),
                    abs_diff_eq |-> Sphere_abs_diff_eq(eqA, eqB, eqEpsilon')]
    /\ last' = "compare"
    /\ UNCHANGED <<isectVars, sphereVars, fluentVars, algebraVars, tupleVars, rayVars, lightVars,
                   eqA, eqB, tupB, canvasVars, minorVars>>

NextCompare ==
    \/ Sphere_pair
    \/ Sphere_compare

\* one comparison of two spheres
SpecCompare == Init /\ [][NextCompare]_vars

(* ----------------------- properties: matrix algebra -------------------- *)
HasInverse(x) == ~REq(Matrix_det(x), Zero)

\* C11: for every matrix b with non-zero determinant, b.inversed() is a true
\* inverse: b * b.inversed() is the identity, and a * b * b.inversed() is a
\* for every a of the same dimension (in the exact arithmetic of this model;
\* the f64 result agrees up to rounding).
C11_InverseIsInverse ==
    /\ (last = "b * b.inversed()" /\ HasInverse(mB)) => mR = identity(Height(mB))
    /\ (last = "a * b * b.inversed()" /\ HasInverse(mB)) => mR = mA

\* matrix1 * matrix2 * matrix2.inversed() of it_multiply_a_product_by_its_inverse
C11_Witness ==
    /\ last = "a * b * b.inversed()"
    /\ mA = matrix1
    /\ mB = matrix2
    /\ HasInverse(mB)
    /\ mR = matrix1

\* C12: for every invertible matrix M, M.inversed().inversed() equals M
\* elementwise (exactly in this model, up to rounding in f64).
C12_InverseOfInverse ==
    (last = "b.inversed().inversed()" /\ HasInverse(mB)) =>
        \A row \in DOMAIN mB : \A col \in DOMAIN mB[row] : mR[row][col] = mB[row][col]

\* the inverse of the inverse of a matrix of determinant other than 1
C12_Witness ==
    /\ last = "b.inversed().inversed()"
    /\ mB = matrix2
    /\ ~REq(Matrix_det(mB), One)
    /\ mR = matrix2

\* C13: for all invertible matrices a and b of the same dimension,
\* (a * b).inversed() equals b.inversed() * a.inversed().
C13_InverseOfProduct ==
    /\ (last = "(a * b).inversed()" /\ HasInverse(mA) /\ HasInverse(mB)) =>
            mR = Matrix_mul(Matrix_inversed(mB), Matrix_inversed(mA))
    /\ (last = "b.inversed() * a.inversed()" /\ HasInverse(mA) /\ HasInverse(mB)) =>
            mR = Matrix_inversed(Matrix_mul(mA, mB))

\* two invertible matrices that do not commute, and the product of their inverses
C13_Witness ==
    /\ last = "b.inversed() * a.inversed()"
    /\ mA = matrix1
    /\ mB = matrix2
    /\ HasInverse(mA)
    /\ HasInverse(mB)
    /\ Matrix_mul(mA, mB) # Matrix_mul(mB, mA)
    /\ mR = Matrix_inversed(Matrix_mul(mA, mB))

AllFinite(x) == \A row \in DOMAIN x : \A col \in DOMAIN x[row] : IsFinite(x[row][col])

\* C14: the identity matrix is a two-sided neutral element of the matrix
\* product: identity(N) * M = M and M * identity(N) = M for every N x N
\* matrix M (of finite entries).
C14_IdentityIsNeutral ==
    /\ (last = "identity * a" /\ AllFinite(mA)) => mR = mA
    /\ (last = "a * identity" /\ AllFinite(mA)) => mR = mA

\* matrix * identity of it_can_be_multiplied_by_the_identity_matrix
C14_Witness ==
    /\ last = "a * identity"
    /\ mA = matrix
    /\ mR = matrix

\* C15: asking for the inverse of a matrix whose determinant is 0 is an
\* explicit failure: no matrix with NaN or infinite entries is returned.
C15_SingularInverseFails ==
    (last = "b.inversed()" /\ ~HasInverse(mB)) => AllFinite(mR)

(* --------------------------- properties: tuples ------------------------ *)
HasNaN(t) == IsNaN(t.x) \/ IsNaN(t.y) \/ IsNaN(t.z) \/ IsNaN(t.w)

\* C16: normalizing a tuple of zero magnitude is an explicit failure:
\* normalized() never returns a tuple with NaN components.
C16_ZeroMagnitudeFails ==
    (last = "normalized" /\ REq(magnitude(tup), Zero)) => ~HasNaN(tupResult)

(* ------------------ properties: degenerate rays and misses ------------- *)
\* C17: a ray whose direction has zero magnitude (a = 0) handed to
\* Sphere::intersections is rejected as a precondition violation: the call
\* does not return a collection, and no undefined (NaN or infinite) t value
\* is computed and handed to Intersections::new.
C17_DegenerateDirectionRejected ==
    (last \in {"intersections", "panic"} /\ IsZeroVector(ray.direction)) =>
        /\ last # "intersections"
        /\ \A i \in 1..Len(input) : IsFinite(input[i].t)

\* C18: a ray that misses the sphere (d < 0) is not an error:
\* Sphere::intersections returns normally with an empty collection, whose
\* count() is 0 and whose hit() is None; the ray from (0,2,-5) along +z
\* misses the unit sphere.
C18_MissIsEmpty ==
    /\ (last \in {"intersections", "panic", "hit", "count"} /\ RLt(quad.d, Zero)) =>
            /\ last # "panic"
            /\ data = <<>>
            /\ count(data) = 0
            /\ hit(data) = <<>>
            /\ last = "hit" => hitResult = <<>>
            /\ last = "count" => countResult = 0
    /\ (/\ last = "intersections"
        /\ sphere = Sphere_unit
        /\ ray = Ray_new(point(Zero, F(2), F(-5)), vector(Zero, Zero, One))) =>
            RLt(quad.d, Zero) /\ count(data) = 0

\* hit() on the empty collection of the ray of it_misses_a_sphere
C18_Witness ==
    /\ last = "hit"
    /\ sphere = Sphere_unit
    /\ ray = Ray_new(point(Zero, F(2), F(-5)), vector(Zero, Zero, One))
    /\ RLt(quad.d, Zero)
    /\ data = <<>>
    /\ hitResult = <<>>

(* ------------------------ properties: ray transforms ------------------- *)
IsTranslation(x) == x = translation_matrix(x[0][3], x[1][3], x[2][3])

\* C19: Ray::transform(M) applies M to both origin and direction; for every
\* translation matrix M the direction (w = 0) is returned unchanged while the
\* origin is shifted by the translation; the ray it is called on is not
\* modified.
C19_TransformMapsBoth ==
    /\ [](last = "transform" =>
            /\ rayOut.origin = Matrix_mul_tuple(rayMatrix, rayIn.origin)
            /\ rayOut.direction = Matrix_mul_tuple(rayMatrix, rayIn.direction)
            /\ IsTranslation(rayMatrix) =>
                  /\ rayOut.direction = rayIn.direction
                  /\ rayOut.origin = Tuple_add(rayIn.origin,
                                                vector(rayMatrix[0][3], rayMatrix[1][3], rayMatrix[2][3])))
    /\ [][last' = "transform" => rayIn' = rayIn]_vars

\* r1.transform(&translation_matrix(3, 4, 5)) of it_can_be_translated
C19_Witness ==
    /\ last = "transform"
    /\ rayIn = Ray_new(point(One, F(2), F(3)), vector(Zero, One, Zero))
    /\ rayMatrix = translation_matrix(F(3), F(4), F(5))
    /\ rayOut = Ray_new(point(F(4), F(6), F(8)), vector(Zero, One, Zero))

(* ------------------------- properties: lighting ------------------------ *)

\* C20: whenever light_dot_normal < 0, the diffuse and the specular
\* contributions of Material::lighting are both black and the result is
\* effective_color * material.ambient, whatever the eye vector is.
C20_LightBehindIsAmbient ==
    (last = "lighting" /\ RLt(lit.light_dot_normal, Zero)) =>
        /\ lit.diffuse_contrib = Color_black
        /\ lit.specular_contrib = Color_black
        /\ lit.result = Color_scale(Color_mul(litMaterial.color, litLight.intensity),
                                    litMaterial.ambient)
        /\ \A e \in EyeVectors :
              lighting(litMaterial, litLight, litPosition, e, litNormal).result = lit.result

\* it_calculate_lighting_when_the_light_is_behind_the_surface
C20_Witness ==
    /\ last = "lighting"
    /\ litMaterial = Material_default
    /\ litLight = PointLight_new(point(Zero, Zero, F(10)), Color_white)
    /\ litPosition = Point3_origin
    /\ litEye = vector(Zero, Zero, F(-1))
    /\ litNormal = vector(Zero, Zero, F(-1))
    /\ RLt(lit.light_dot_normal, Zero)
    /\ lit.result = Color_new(R(1, 10), R(1, 10), R(1, 10))

\* C21: in Material::lighting, when light_dot_normal >= 0 and
\* reflect_dot_eye <= 0 (exactly 0 included), the specular contribution is
\* black for every material, so the result is ambient + diffuse.
C21_SpecularBlackAtOrBelowZero ==
    (/\ last = "lighting"
     /\ RGe(lit.light_dot_normal, Zero)
     /\ lit.reflected # <<>>
     /\ RLe(lit.reflected[1], Zero)) =>
        /\ lit.specular_contrib = Color_black
        /\ lit.result = Color_add(lit.ambient_contrib, lit.diffuse_contrib)

\* C22: Material::lighting returns ambient + diffuse + specular channel by
\* channel, unclamped: with the default material, a white light on the
\* normal axis and eye = normal, every channel of the result is 1.9 > 1.
C22_SumIsUnclamped ==
    last = "lighting" =>
        /\ lit.result = Color_add(Color_add(lit.ambient_contrib, lit.diffuse_contrib),
                                  lit.specular_contrib)
        /\ (/\ litMaterial = Material_default
            /\ litLight.intensity = Color_white
            /\ lit.light_vector = litNormal
            /\ litEye = litNormal) =>
               /\ lit.result = Color_new(R(19, 10), R(19, 10), R(19, 10))
               /\ RLt(One, lit.result.r) /\ RLt(One, lit.result.g) /\ RLt(One, lit.result.b)

\* it_calculate_lighting_when_the_eye_is_between_the_light_and_the_surface
C22_Witness ==
    /\ last = "lighting"
    /\ litMaterial = Material_default
    /\ litLight = PointLight_new(point(Zero, Zero, F(-10)), Color_white)
    /\ litPosition = Point3_origin
    /\ litEye = vector(Zero, Zero, F(-1))
    /\ litNormal = vector(Zero, Zero, F(-1))
    /\ lit.ambient_contrib = Color_new(R(1, 10), R(1, 10), R(1, 10))
    /\ lit.diffuse_contrib = Color_new(R(9, 10), R(9, 10), R(9, 10))
    /\ lit.specular_contrib = Color_new(R(9, 10), R(9, 10), R(9, 10))
    /\ lit.result = Color_new(R(19, 10), R(19, 10), R(19, 10))

(* ------------------------ properties: comparison ----------------------- *)

\* C23: two spheres compare equal if and only if their origin, radius,
\* transform and material all compare equal; two spheres that differ only
\* in transform or only in material compare as not equal.
C23_SphereEqualityIsFieldwise ==
    last = "compare" =>
        /\ eqResult.eq <=> (/\ Tuple_eq(eqA.origin, eqB.origin)
                            /\ REq(eqA.radius, eqB.radius)
                            /\ Matrix_eq(eqA.transform, eqB.transform)
                            /\ Material_eq(eqA.material, eqB.material))
        /\ (/\ Tuple_eq(eqA.origin, eqB.origin)
            /\ REq(eqA.radius, eqB.radius)
            /\ Matrix_eq(eqA.transform, eqB.transform) # Material_eq(eqA.material, eqB.material)) =>
               /\ ~eqResult.eq
               /\ ~eqResult.abs_diff_eq

(* ------------------------- properties: tuples -------------------------- *)

IsPoint(t) == t.w = One

IsVector(t) == t.w = Zero

\* C24: Tuple add and sub act on all four components alike, so for
\* operands with w in {0, 1} point - point is a vector (w = 0),
\* point - vector is a point (w = 1) and vector +/- vector is a vector.
C24_AddSubActOnAllComponents ==
    /\ last = "add" =>
          /\ tupResult = [x |-> RAdd(tup.x, tupB.x), y |-> RAdd(tup.y, tupB.y),
                          z |-> RAdd(tup.z, tupB.z), w |-> RAdd(tup.w, tupB.w)]
          /\ (IsVector(tup) /\ IsVector(tupB)) => IsVector(tupResult)
    /\ last = "sub" =>
          /\ tupResult = [x |-> RSub(tup.x, tupB.x), y |-> RSub(tup.y, tupB.y),
                          z |-> RSub(tup.z, tupB.z), w |-> RSub(tup.w, tupB.w)]
          /\ (IsPoint(tup) /\ IsPoint(tupB)) => IsVector(tupResult)
          /\ (IsPoint(tup) /\ IsVector(tupB)) => IsPoint(tupResult)
          /\ (IsVector(tup) /\ IsVector(tupB)) => IsVector(tupResult)

\* it_substracts_two_points
C24_Witness ==
    /\ last = "sub"
    /\ tup = point(F(3), F(2), One)
    /\ tupB = point(F(5), F(6), F(7))
    /\ tupResult = vector(F(-2), F(-4), F(-6))

(* ------------------------- properties: canvas -------------------------- *)

InRange(c, x, y) == x < c.width /\ y < c.height

\* C25: after write_pixel(x, y, c) with x < width and y < height,
\* read_pixel(x, y) returns c and every other pixel, the width and the
\* height are unchanged; a fresh canvas reads back the background colour
\* at every in-range coordinate.
C25_WriteThenRead ==
    /\ [][last' = "write" =>
            /\ read_pixel(canvas', canvasCall'.x, canvasCall'.y) = canvasCall'.color
            /\ canvas'.width = canvas.width
            /\ canvas'.height = canvas.height
            /\ Len(canvas'.buffer) = Len(canvas.buffer)
            /\ \A x \in 0..(canvas.width - 1), y \in 0..(canvas.height - 1) :
                  <<x, y>> # <<canvasCall'.x, canvasCall'.y>> =>
                      read_pixel(canvas', x, y) = read_pixel(canvas, x, y)]_vars
    /\ [][(last = "write" /\ last' = "read" /\ pixel'.x = canvasCall.x /\ pixel'.y = canvasCall.y) =>
            pixel'.color = canvasCall.color]_vars
    /\ [](last = "canvas" =>
            \A x \in 0..(canvas.width - 1), y \in 0..(canvas.height - 1) :
                read_pixel(canvas, x, y) = canvasCall.color)
    /\ [][(last = "canvas" /\ last' = "read" /\ InRange(canvas, pixel'.x, pixel'.y)) =>
            pixel'.color = canvasCall.color]_vars

\* it_write_pixels, on a smaller canvas, and the pixel read back
C25_Witness ==
    /\ last = "read"
    /\ writes = 1
    /\ canvas.width = 3 /\ canvas.height = 2
    /\ canvasCall = [x |-> 2, y |-> 1, color |-> Color_new(R(3, 2), Zero, Zero)]
    /\ pixel = [x |-> 2, y |-> 1, color |-> Color_new(R(3, 2), Zero, Zero)]
    /\ read_pixel(canvas, 1, 1) = Color_black
    /\ read_pixel(canvas, 2, 0) = Color_black

\* the positions of the line ends of ppm
NewLines == {i \in 1..Len(ppm) : ppm[i] = "\n"}

\* the position that ends the three header lines
HeaderEnd == CHOOSE i \in NewLines : Cardinality({j \in NewLines : j < i}) = 2

\* the positions where a channel value of the pixel data starts
ValueStarts ==
    {i \in (HeaderEnd + 1)..Len(ppm) : ppm[i] \notin {" ", "\n"} /\ ppm[i - 1] \in {" ", "\n"}}

\* the characters of the value that starts at position i
ValueAt(i) ==
    SubSeq(ppm, i, CHOOSE j \in i..Len(ppm) :
                       /\ \A n \in i..j : ppm[n] \notin {" ", "\n"}
                       /\ (j = Len(ppm) \/ ppm[j + 1] \in {" ", "\n"}))

\* the k-th channel value of the canvas in row-major order, k from 0
ChannelInRowMajorOrder(k) ==
    Color_to_ppm(read_pixel(canvas, (k \div 3) % canvas.width,
                            (k \div 3) \div canvas.width))[(k % 3) + 1]

\* the values that start at the positions starts are the channels of the
\* canvas in row-major order, and the first value of a row starts a line
RowMajor(starts) ==
    /\ Cardinality(starts) = 3 * canvas.width * canvas.height
    /\ \A i \in starts :
          /\ ValueAt(i) = ChannelInRowMajorOrder(Cardinality({j \in starts : j < i}))
          /\ Cardinality({j \in starts : j < i}) % (3 * canvas.width) = 0 => ppm[i - 1] = "\n"

\* C26: for every canvas size and pixel contents, to_ppm emits the pixel
\* data in row-major order, starts a new line for each canvas row, never
\* emits a line longer than 70 characters (a channel value that would
\* pass the limit goes to a new line, whole), and ends with a newline.
C26_PpmLayout ==
    last = "to_ppm" =>
        /\ ppm[Len(ppm)] = "\n"
        /\ \A i \in 1..(Len(ppm) - 70) : \E j \in i..(i + 70) : ppm[j] = "\n"
        /\ RowMajor(ValueStarts)
        /\ Cardinality({j \in NewLines : j > HeaderEnd}) >= canvas.height

\* a canvas whose rows are longer than 70 characters and are split, as in
\* it_splits_long_lines_in_the_ppm_pixel_data
C26_Witness ==
    /\ last = "to_ppm"
    /\ canvas = Canvas_new(6, 2, Color_new(One, R(4, 5), R(3, 5)))
    /\ Cardinality(NewLines) = 7
    /\ SubSeq(ppm, HeaderEnd + 1, HeaderEnd + 12)
          = <<"2", "5", "5", " ", "2", "0", "4", " ", "1", "5", "3", " ">>
    /\ ppm[HeaderEnd + 68] = "\n"

(* --------------------- properties: matrix properties ------------------- *)

\* the permutations of 0..(n - 1)
IndexPermutations(n) ==
    {p \in [0..(n - 1) -> 0..(n - 1)] : \A i, j \in 0..(n - 1) : p[i] = p[j] => i = j}

\* the sign of a permutation: -1 to the number of its inversions
SignOf(p) ==
    IF Cardinality({ij \in (DOMAIN p) \X (DOMAIN p) : ij[1] < ij[2] /\ p[ij[1]] > p[ij[2]]}) % 2 = 0
    THEN One ELSE RNeg(One)

\* x[0][p[0]] * ... * x[i][p[i]]
RECURSIVE ProductAlong(_, _, _)
ProductAlong(x, p, i) ==
    IF i < 0 THEN One ELSE RMul(ProductAlong(x, p, i - 1), x[i][p[i]])

\* the sum of sign(p) * product along p over the permutations ps
RECURSIVE LeibnizSum(_, _)
LeibnizSum(x, ps) ==
    IF ps = {} THEN Zero
    ELSE LET p == CHOOSE q \in ps : TRUE
         IN  RAdd(RMul(SignOf(p), ProductAlong(x, p, Height(x) - 1)), LeibnizSum(x, ps \ {p}))

\* the permutation-sum determinant
Leibniz(x) == LeibnizSum(x, IndexPermutations(Height(x)))

\* C27: det() is the first-row cofactor expansion and equals the
\* permutation-sum (Leibniz) determinant for every 2 x 2, 3 x 3 and 4 x 4
\* matrix; is_invertible() is true exactly when that value is non-zero.
C27_DetIsLeibniz ==
    last = "a.det()" =>
        /\ mDet.det = Leibniz(mA)
        /\ Height(mA) = 2 =>
              mDet.det = RSub(RMul(mA[0][0], mA[1][1]), RMul(mA[0][1], mA[1][0]))
        /\ Height(mA) = 4 => (mDet.is_invertible[1] <=> mDet.det # Zero)

\* the determinant of it_calculate_the_determinant_of_a_4x4_matrix
C27_Witness ==
    /\ last = "a.det()"
    /\ mA = Matrix_from_rows(<< <<F(-5), F(2), F(6), F(-8)>>,
                                <<One, F(-5), One, F(8)>>,
                                <<F(7), F(7), F(-6), F(-7)>>,
                                <<One, F(-3), F(7), F(4)>> >>)
    /\ mDet = [det |-> F(532), is_invertible |-> <<TRUE>>]

\* C28: for every in-range (r, c), submatrix(r, c) of an N x N matrix is
\* the (N - 1) x (N - 1) matrix left by deleting row r and column c, the
\* other entries in their order; also for the last row and column.
C28_SubmatrixDeletesRowAndColumn ==
    last = "a.submatrix()" =>
        /\ Height(mMinor.result) = Height(mA) - 1
        /\ Width(mMinor.result) = Width(mA) - 1
        /\ \A r, c \in 0..(Height(mA) - 2) :
              mMinor.result[r][c] = mA[IF r < mMinor.row THEN r ELSE r + 1]
                                      [IF c < mMinor.col THEN c ELSE c + 1]

\* the last row and the last column of a Matrix<4, 4> removed
C28_Witness ==
    /\ last = "a.submatrix()"
    /\ mA = matrix1
    /\ mMinor.row = 3
    /\ mMinor.col = 3
    /\ mMinor.result = Matrix_from_rows(<< <<mA[0][0], mA[0][1], mA[0][2]>>,
                                           <<mA[1][0], mA[1][1], mA[1][2]>>,
                                           <<mA[2][0], mA[2][1], mA[2][2]>> >>)

\* C29: transposed(M)[row][col] = M[col][row] for every square matrix M,
\* so transposing twice returns M and the identity is its own transpose.
C29_TransposedSwapsIndices ==
    /\ last = "a.transposed()" =>
          /\ \A row, col \in 0..(Height(mA) - 1) : mR[row][col] = mA[col][row]
          /\ mA = identity(Height(mA)) => mR = mA
    /\ last = "a.transposed().transposed()" => mR = mA

\* it_transpose_matrices
C29_Witness ==
    /\ last = "a.transposed()"
    /\ mA = Matrix_from_rows(<< <<Zero, F(9), F(3), Zero>>,
                                <<F(9), F(8), Zero, F(8)>>,
                                <<One, F(8), F(5), F(3)>>,
                                <<Zero, Zero, F(5), F(8)>> >>)
    /\ mR = Matrix_from_rows(<< <<Zero, F(9), One, Zero>>,
                                <<F(9), F(8), F(8), Zero>>,
                                <<F(3), Zero, F(5), F(5)>>,
                                <<Zero, F(8), F(3), F(8)>> >>)

(* ------------------- properties: order of the input -------------------- *)

\* the t values of a sequence of intersections, in its order
TsOf(d) == [i \in 1..Len(d) |-> d[i].t]

\* the t of what hit() returned: hit is <<>> for None
HitT(h) == IF h = <<>> THEN <<>> ELSE <<h[1].t>>

\* how often e occurs in the sequence d
Occurrences(d, e) == Cardinality({i \in 1..Len(d) : d[i] = e})

\* C30: Intersections::new keeps exactly the multiset of its input
\* (count() is the input length, nothing dropped or duplicated), so for
\* every permutation of the same input, equal t values included, the
\* stored sequence of t values and the t of hit() are the same.
C30_OrderOfInputIsIrrelevant ==
    [][last' \in {"new", "reordered"} =>
         /\ countResult' = Len(input')
         /\ \A i \in 1..Len(input') : Occurrences(data', input'[i]) = Occurrences(input', input'[i])
         /\ last' = "reordered" =>
               /\ TsOf(data') = TsOf(data)
               /\ HitT(hitResult') = HitT(hitResult)]_vars

\* two intersections of equal t on different spheres, handed over in the
\* other order: the collection built from the permutation stores the two
\* the other way round
C30_Witness ==
    /\ last = "reordered"
    /\ input = << Intersection_new(One, Intersectable_Sphere(Sphere_new(Point3_origin, F(2)))),
                  Intersection_new(F(-1), Intersectable_Sphere(Sphere_unit)),
                  Intersection_new(One, Intersectable_Sphere(Sphere_unit)) >>
    /\ data = << Intersection_new(F(-1), Intersectable_Sphere(Sphere_unit)),
                 Intersection_new(One, Intersectable_Sphere(Sphere_new(Point3_origin, F(2)))),
                 Intersection_new(One, Intersectable_Sphere(Sphere_unit)) >>
    /\ HitT(hitResult) = <<One>>
    /\ countResult = 3

=============================================================================
